---------------------------- MODULE Spec2Model ----------------------------
(***************************************************************************)
(* Verification model of live-translation-api.                             *)
(*                                                                         *)
(*  Spec       the /verbatim streaming session of routes/translate.py:     *)
(*             the stream_reader thread, the data_queue, and the           *)
(*             generate_transcriptions loop, on a discrete clock of        *)
(*             one-second ticks.                                           *)
(*  SpecAlign  the post-session alignment of test_architecture.py:         *)
(*             get_last_segment, find_best_match,                          *)
(*             merge_consecutive_segments and process_diarization, as      *)
(*             pure operators applied to bounded inputs.                   *)
(***************************************************************************)
EXTENDS Integers, Sequences, FiniteSets, TLC

(***************************************************************************)
(* Bounds of the model.                                                    *)
(***************************************************************************)
\* chunks the request body delivers before the reader thread stops reading
MaxChunks == 2
\* last tick of the clock
MaxClock == 4
\* byte counts request.stream.read(chunk_size) may return for one chunk
ChunkLens == {1, 2}
\* values of the X-Sample-Rate header
SampleRates == {2, 3, 4}
\* transcript chunks of one alignment
MaxAlignChunks == 2
\* tuples of one merge pass
MaxTuples == 3
\* recordings the background listener captures in one session
MaxFrames == 2
\* requests the Flask process handles in a run
MaxRequests == 2
\* frames PyAudio delivers in a run of AudioStreamer
MaxStreamFrames == 5
\* speaker segments of one alignment
MaxSegments == 2
\* the times a chunk or a segment may start or end at
TimeVals == 0..2
\* speaker labels
Speakers == {"A", "B"}

\* Python's None where a time is expected
None == 0 - 1

VARIABLES
    sample_rate,        \* int(request.headers['X-Sample-Rate'])
    body_chunks,        \* chunks the request body holds at most
    clock,              \* wall clock, in seconds
    nread,              \* chunks read from request.stream so far
    reader_alive,       \* the stream_reader thread is still in its loop
    data_queue,         \* Queue(): sequence of chunks
    stream_complete,    \* threading.Event
    pc,                 \* position of generate_transcriptions
    now,                \* local of the loop iteration
    phrase_bytes,       \* audio of the current phrase
    phrase_time,        \* last time audio was retrieved from the queue
    phrase_complete,    \* local of the loop iteration
    audio_chunks,       \* local: chunks drained in this iteration
    transcription,      \* list of per-phrase texts
    events,             \* SSE events yielded so far
    inflight,           \* whisper_model.transcribe calls that have not returned
    connected,          \* the consumer of the event stream is still there
    \* history, for stating the properties
    ingested,           \* bytes put on data_queue, in order
    appended,           \* bytes ever added to phrase_bytes, in order
    hist,               \* appends and resets of the phrase buffer, in order
    calls,              \* buffers handed to whisper_model.transcribe
    phrase_no,          \* number of the phrase phrase_bytes belongs to
    ended,              \* buffer of the phrase that ended last, as it was
                        \* when line 114 cleared it
    append_clock,       \* clock at the last append to phrase_bytes
    stale,              \* at some loop head since the last reset, phrase_bytes
                        \* was non-empty with its last append more than
                        \* phrase_timeout ago
    \* post-session alignment (test_architecture.py)
    align_pc,           \* position of process_diarization
    segments,           \* what diarize_audio returned
    timestamps,         \* the chunks transcribe_audio returned
    speaker_transcriptions, \* what process_diarization returns, or its exception
    best_matches,       \* what find_best_match returns for each chunk
    provisional,        \* speaker_transcriptions before the merge (line 424)
    diarizer_ok,        \* the diarization endpoint answers with status 200
    diarizer_calls,     \* requests process_diarization made to the Diarizer
    transcriber_calls,  \* requests process_diarization made to the Transcriber
    process_pc,         \* position of AudioDiarizer.process (test_diarize.py)
    process_result,     \* what AudioDiarizer.process returns, with the
                        \* requests it made
    \* merge_consecutive_segments applied on its own
    merge_pc,           \* position of the merge run
    merge_input,        \* the tuple list `segments` passed in
    merged_segments,    \* what merge_consecutive_segments returns for it
    remerged,           \* what it returns for merged_segments
    \* the end of a LiveDiarizationStreamer session (test_architecture.py)
    main_pc,            \* position of the main thread in start() / stop()
    listener_pc,        \* position of the background listener thread
    listening,          \* the listener has not been told to stop
    is_running,         \* self.is_running
    captured,           \* recordings the listener has captured so far
    all_audio_frames,   \* self.all_audio_frames
    audio_queue,        \* self.audio_queue
    recorded,           \* the frames save_audio joined
    \* the Flask process and its models (app.py, routes/)
    server_pc,          \* "boot" while app.py runs, then "serving"
    whisper_transcriber,    \* the global of routes/transcription.py
    transcribers_built, \* WhisperAudioTranscriber instances constructed
    pipelines_built,    \* pyannote Pipeline instances constructed
    requests,           \* the requests being handled, each with its position
    \* AudioStreamer (test_stream.py): the PyAudio callback and the
    \* process_audio thread
    as_is_running,      \* self.is_running
    as_audio_queue,     \* self.audio_queue: frames, and None as end of phrase
    as_phrase_bytes,    \* self.phrase_bytes, as the sequence of its frames
    as_phrase_time,     \* self.phrase_time
    last_transcription_time,    \* self.last_transcription_time
    is_speaking,        \* self.is_speaking
    silence_frames,     \* self.silence_frames
    cb_pc,              \* position of audio_callback
    proc_pc,            \* position of process_audio
    as_now,             \* local `now` of process_audio
    as_audio_chunks,    \* local `audio_chunks` of process_audio
    has_end_signal,     \* local of process_audio
    should_transcribe,  \* local of process_audio
    as_is_final,        \* local `is_final` of process_audio
    \* history, for stating the properties
    nframes,            \* frames PyAudio has delivered; one frame is
                        \* CHUNK_DURATION_MS of time, so this is the clock
    frames_log,         \* per frame "S" (speech) or "N" (no speech), and
                        \* "END" where the sentinel was enqueued
    sends,              \* send_for_transcription calls, in order
    iter_sends,         \* send_for_transcription calls of this iteration
    queued_at_start     \* audio_queue as it was when the iteration started

verbatimVars ==
    <<sample_rate, body_chunks, clock, nread, reader_alive, data_queue, stream_complete,
      pc, now, phrase_bytes, phrase_time, phrase_complete, audio_chunks,
      transcription, events, inflight, ingested, appended, hist, calls,
      phrase_no, ended, append_clock, stale, connected>>

alignVars ==
    <<align_pc, segments, timestamps, speaker_transcriptions, best_matches,
      provisional, diarizer_ok, diarizer_calls, transcriber_calls,
      process_pc, process_result, merge_pc, merge_input, merged_segments,
      remerged>>

stopVars ==
    <<main_pc, listener_pc, listening, is_running, captured,
      all_audio_frames, audio_queue, recorded>>

modelVars ==
    <<server_pc, whisper_transcriber, transcribers_built, pipelines_built,
      requests>>

streamVars ==
    <<as_is_running, as_audio_queue, as_phrase_bytes, as_phrase_time,
      last_transcription_time, is_speaking, silence_frames, cb_pc, proc_pc,
      as_now, as_audio_chunks, has_end_signal, should_transcribe,
      as_is_final, nframes, frames_log, sends, iter_sends, queued_at_start>>

otherVars == <<modelVars, streamVars>>

vars == <<verbatimVars, alignVars, stopVars, otherVars>>

(***************************************************************************)
(* Helpers on sequences.                                                   *)
(***************************************************************************)
RECURSIVE Flatten(_)
\* b''.join(list of byte strings)
Flatten(ss) == IF ss = <<>> THEN <<>> ELSE Head(ss) \o Flatten(Tail(ss))

\* a chunk of n bytes, each byte tagged with the chunk's number
Payload(id, n) == [i \in 1..n |-> id]

(***************************************************************************)
(* /verbatim: constants and pure parts of generate_transcriptions.         *)
(***************************************************************************)
\* phrase_timeout = 3
phrase_timeout == 3

\* min_samples = int(sample_rate * 0.5)
min_samples(sr) == sr \div 2

\* len(phrase_bytes) >= min_samples * 2
EnoughAudio(buf, sr) == Len(buf) >= min_samples(sr) * 2

\* mutant of PhraseExpired: the phrase also ends at exactly phrase_timeout
PhraseExpired_AtTimeout(pt, n) == pt # None /\ n - pt >= phrase_timeout

\* phrase_time and now - phrase_time > timedelta(seconds=phrase_timeout)
PhraseExpired(pt, n) == pt # None /\ n - pt > phrase_timeout

\* mutant of LoopCondition: the loop is left as soon as the reader is done
LoopCondition_FlagOnly(complete, queue) == ~complete

\* while not stream_complete.is_set() or not data_queue.empty() (line 106)
LoopCondition(complete, queue) == ~complete \/ queue # <<>>

\* mutant of Accumulate: the new audio replaces the buffer
Accumulate_Replace(phrase, audio_data) == audio_data

\* phrase_bytes += audio_data (line 128)
Accumulate(phrase, audio_data) == phrase \o audio_data

\* mutant of ClearedPhrase: the finished phrase stays in the buffer
ClearedPhrase_Keep(phrase) == phrase

\* phrase_bytes = bytes() (line 114)
ClearedPhrase(phrase) == <<>>

\* np.frombuffer(phrase_bytes, dtype=np.int16) raises ValueError unless the
\* buffer is a whole number of 2-byte samples
FromBufferOk(buf) == Len(buf) % 2 = 0

\* result['text'].strip(): the external model's text for a buffer, kept as
\* the buffer it was computed from (texts of different buffers differ)
Whisper(buf) == buf

\* the separator ' ' of ' '.join
SP == 0

RECURSIVE Join(_)
\* ' '.join(list)
Join(ts) ==
    IF ts = <<>> THEN <<>>
    ELSE IF Len(ts) = 1 THEN ts[1]
    ELSE ts[1] \o <<SP>> \o Join(Tail(ts))

RECURSIVE LStrip(_)
LStrip(s) == IF s # <<>> /\ Head(s) = SP THEN LStrip(Tail(s)) ELSE s

RECURSIVE RStrip(_)
RStrip(s) ==
    IF s # <<>> /\ s[Len(s)] = SP THEN RStrip(SubSeq(s, 1, Len(s) - 1)) ELSE s

\* str.strip()
Strip(s) == RStrip(LStrip(s))

\* one SSE event
Event(type, text, is_final, message, phrase) ==
    [type |-> type, text |-> text, is_final |-> is_final,
     message |-> message, phrase |-> phrase]

(***************************************************************************)
(* Initial state of a /verbatim request: lines 57-73 and 101.              *)
(***************************************************************************)
InitRequest(rates, chunks) ==
    /\ sample_rate \in rates
    /\ body_chunks = chunks
    /\ clock = 0
    /\ nread = 0
    /\ reader_alive = TRUE
    /\ data_queue = <<>>
    /\ stream_complete = FALSE
    /\ pc = "start"
    /\ now = 0
    /\ phrase_bytes = <<>>
    /\ phrase_time = None
    /\ phrase_complete = FALSE
    /\ audio_chunks = <<>>
    /\ transcription = << <<>> >>
    /\ events = <<>>
    /\ inflight = 0
    /\ ingested = <<>>
    /\ appended = <<>>
    /\ hist = <<>>
    /\ calls = <<>>
    /\ phrase_no = 1
    /\ ended = <<>>
    /\ append_clock = 0
    /\ stale = FALSE
    /\ connected = TRUE

\* a request whose body holds up to MaxChunks chunks
InitVerbatim(rates) == InitRequest(rates, MaxChunks)

\* no alignment is running
AlignIdle ==
    /\ align_pc = "idle"
    /\ segments = <<>>
    /\ timestamps = <<>>
    /\ speaker_transcriptions = [tag |-> "None"]
    /\ best_matches = <<>>
    /\ provisional = [tag |-> "None"]
    /\ diarizer_ok = TRUE
    /\ diarizer_calls = 0
    /\ transcriber_calls = 0
    /\ process_pc = "idle"
    /\ process_result = [tag |-> "None"]

\* merge_consecutive_segments is not running on its own
MergeIdle ==
    /\ merge_pc = "idle"
    /\ merge_input = <<>>
    /\ merged_segments = <<>>
    /\ remerged = <<>>

\* no LiveDiarizationStreamer session
StopIdle ==
    /\ main_pc = "idle"
    /\ listener_pc = "idle"
    /\ listening = FALSE
    /\ is_running = FALSE
    /\ captured = 0
    /\ all_audio_frames = <<>>
    /\ audio_queue = <<>>
    /\ recorded = <<>>

\* no Flask process is being looked at
ModelsIdle ==
    /\ server_pc = "off"
    /\ whisper_transcriber = None
    /\ transcribers_built = 0
    /\ pipelines_built = 0
    /\ requests = <<>>

\* AudioStreamer.__init__, lines 37-56; start() has not been called
StreamIdle ==
    /\ as_is_running = FALSE
    /\ as_audio_queue = <<>>
    /\ as_phrase_bytes = <<>>
    /\ as_phrase_time = None
    /\ last_transcription_time = None
    /\ is_speaking = FALSE
    /\ silence_frames = 0
    /\ cb_pc = "off"
    /\ proc_pc = "off"
    /\ as_now = 0
    /\ as_audio_chunks = <<>>
    /\ has_end_signal = FALSE
    /\ should_transcribe = FALSE
    /\ as_is_final = FALSE
    /\ nframes = 0
    /\ frames_log = <<>>
    /\ sends = <<>>
    /\ iter_sends = 0
    /\ queued_at_start = <<>>

OthersIdle == ModelsIdle /\ StreamIdle

Init ==
    /\ InitVerbatim(SampleRates)
    /\ AlignIdle
    /\ MergeIdle
    /\ StopIdle
    /\ OthersIdle


(***************************************************************************)
(* The clock.                                                              *)
(***************************************************************************)
Tick ==
    /\ clock < MaxClock
    /\ clock' = clock + 1
    /\ UNCHANGED <<body_chunks, sample_rate, nread, reader_alive, data_queue,
                   stream_complete, pc, now, phrase_bytes, phrase_time,
                   phrase_complete, audio_chunks, transcription, events,
                   inflight, ingested, appended, hist, calls, phrase_no,
                   ended, append_clock, stale>>
    /\ UNCHANGED <<connected, alignVars, stopVars, otherVars>>

(***************************************************************************)
(* stream_reader (lines 75-89).                                            *)
(***************************************************************************)
\* chunk = request.stream.read(chunk_size); data_queue.put(chunk)
ReaderPut ==
    /\ reader_alive
    /\ nread < body_chunks
    /\ \E n \in ChunkLens :
        LET chunk == [id |-> nread + 1, arr |-> clock,
                      data |-> Payload(nread + 1, n)]
        IN /\ data_queue' = Append(data_queue, chunk)
           /\ ingested' = ingested \o chunk.data
    /\ nread' = nread + 1
    /\ UNCHANGED <<body_chunks, sample_rate, clock, reader_alive, stream_complete, pc,
                   now, phrase_bytes, phrase_time, phrase_complete,
                   audio_chunks, transcription, events, inflight, appended,
                   hist, calls, phrase_no, ended, append_clock, stale>>
    /\ UNCHANGED <<connected, alignVars, stopVars, otherVars>>

\* if not chunk: break; stream_complete.set()
ReaderEOF ==
    /\ reader_alive
    /\ reader_alive' = FALSE
    /\ stream_complete' = TRUE
    /\ UNCHANGED <<body_chunks, sample_rate, clock, nread, data_queue, pc, now,
                   phrase_bytes, phrase_time, phrase_complete, audio_chunks,
                   transcription, events, inflight, ingested, appended, hist,
                   calls, phrase_no, ended, append_clock, stale>>
    /\ UNCHANGED <<connected, alignVars, stopVars, otherVars>>

\* except Exception: stream_complete.set()
ReaderError ==
    /\ reader_alive
    /\ reader_alive' = FALSE
    /\ stream_complete' = TRUE
    /\ UNCHANGED <<body_chunks, sample_rate, clock, nread, data_queue, pc, now,
                   phrase_bytes, phrase_time, phrase_complete, audio_chunks,
                   transcription, events, inflight, ingested, appended, hist,
                   calls, phrase_no, ended, append_clock, stale>>
    /\ UNCHANGED <<connected, alignVars, stopVars, otherVars>>

(***************************************************************************)
(* generate_transcriptions (lines 95-159).                                 *)
(***************************************************************************)
\* where the generator is after a yield whose normal continuation is
\* next_pc: once the consumer is gone the response iterator is closed, and
\* GeneratorExit, which `except Exception` does not catch, ends the
\* generator at the yield
AfterYield(next_pc) == IF connected THEN next_pc ELSE "closed"

\* the consumer of the event stream disconnects
Disconnect ==
    /\ connected
    /\ pc \notin {"done", "closed"}
    /\ connected' = FALSE
    /\ UNCHANGED <<body_chunks, sample_rate, clock, nread, reader_alive, data_queue,
                   stream_complete, pc, now, phrase_bytes, phrase_time,
                   phrase_complete, audio_chunks, transcription, events,
                   inflight, ingested, appended, hist, calls, phrase_no,
                   ended, append_clock, stale>>
    /\ UNCHANGED <<alignVars, stopVars, otherVars>>

\* line 104: yield the status event
YieldStatus ==
    /\ pc = "start"
    /\ events' = Append(events, Event("status", <<>>, FALSE, "Ready to transcribe", 0))
    /\ pc' = AfterYield("loop")
    /\ UNCHANGED <<body_chunks, sample_rate, clock, nread, reader_alive, data_queue,
                   stream_complete, now, phrase_bytes, phrase_time,
                   phrase_complete, audio_chunks, transcription, inflight,
                   ingested, appended, hist, calls, phrase_no, ended,
                   append_clock, stale>>
    /\ UNCHANGED <<connected, alignVars, stopVars, otherVars>>

\* lines 106-117: the while condition, now = datetime.now(), the queue test
\* and the phrase timeout
LoopHead ==
    /\ pc = "loop"
    /\ IF ~LoopCondition(stream_complete, data_queue)
       THEN \* the loop is left
            /\ pc' = "final"
            /\ UNCHANGED <<now, phrase_bytes, phrase_time, phrase_complete,
                           audio_chunks, hist, phrase_no, ended, stale>>
       ELSE /\ now' = clock
            /\ IF data_queue # <<>>
               THEN /\ IF PhraseExpired(phrase_time, clock)
                       THEN /\ phrase_bytes' = ClearedPhrase(phrase_bytes)
                            /\ phrase_complete' = TRUE
                            /\ phrase_no' = phrase_no + 1
                            /\ ended' = phrase_bytes
                            /\ stale' = FALSE
                            /\ hist' = Append(hist, [k |-> "reset", id |-> 0,
                                    arr |-> 0, deq |-> clock, len |-> 0,
                                    late |-> stale])
                       ELSE /\ phrase_complete' = FALSE
                            /\ stale' = (stale \/ (phrase_bytes # <<>> /\
                                    clock - append_clock > phrase_timeout))
                            /\ UNCHANGED <<phrase_bytes, phrase_no, ended, hist>>
                    /\ phrase_time' = clock
                    /\ audio_chunks' = <<>>
                    /\ pc' = "drain"
               ELSE /\ pc' = "sleep"
                    /\ stale' = (stale \/ (phrase_bytes # <<>> /\
                                    clock - append_clock > phrase_timeout))
                    /\ UNCHANGED <<phrase_bytes, phrase_time, phrase_complete,
                                   audio_chunks, hist, phrase_no, ended>>
    /\ UNCHANGED <<body_chunks, sample_rate, clock, nread, reader_alive, data_queue,
                   stream_complete, transcription, events, inflight, ingested,
                   appended, calls, append_clock>>
    /\ UNCHANGED <<connected, alignVars, stopVars, otherVars>>

\* lines 121-123: one data_queue.get_nowait()
Drain ==
    /\ pc = "drain"
    /\ data_queue # <<>>
    /\ audio_chunks' = Append(audio_chunks, Head(data_queue))
    /\ data_queue' = Tail(data_queue)
    /\ UNCHANGED <<body_chunks, sample_rate, clock, nread, reader_alive, stream_complete,
                   pc, now, phrase_bytes, phrase_time, phrase_complete,
                   transcription, events, inflight, ingested, appended, hist,
                   calls, phrase_no, ended, append_clock, stale>>
    /\ UNCHANGED <<connected, alignVars, stopVars, otherVars>>

\* lines 121, 127-132: the queue is empty; join, append, and the gate
DrainEnd ==
    /\ pc = "drain"
    /\ data_queue = <<>>
    /\ LET audio_data == Flatten([i \in 1..Len(audio_chunks) |-> audio_chunks[i].data])
       IN /\ phrase_bytes' = Accumulate(phrase_bytes, audio_data)
          /\ appended' = appended \o audio_data
          /\ append_clock' = clock
          /\ hist' = hist \o [i \in 1..Len(audio_chunks) |->
                                [k |-> "chunk", id |-> audio_chunks[i].id,
                                 arr |-> audio_chunks[i].arr, deq |-> now,
                                 len |-> Len(audio_chunks[i].data),
                                 late |-> FALSE]]
          /\ pc' = IF EnoughAudio(Accumulate(phrase_bytes, audio_data),
                                  sample_rate)
                   THEN "call" ELSE "loop"
    /\ audio_chunks' = <<>>
    /\ UNCHANGED <<body_chunks, sample_rate, clock, nread, reader_alive, data_queue,
                   stream_complete, now, phrase_time, phrase_complete,
                   transcription, events, inflight, ingested, calls,
                   phrase_no, ended, stale>>
    /\ UNCHANGED <<connected, alignVars, stopVars, otherVars>>

\* mutant of TranscribeCall: the call is started and the loop goes on without
\* waiting for it to return
TranscribeCall_Async ==
    /\ pc = "call"
    /\ FromBufferOk(phrase_bytes)
    /\ inflight' = inflight + 1
    /\ calls' = Append(calls, [buf |-> phrase_bytes,
                               is_final |-> phrase_complete,
                               phrase |-> phrase_no])
    /\ pc' = "loop"
    /\ UNCHANGED <<body_chunks, sample_rate, clock, nread, reader_alive, data_queue,
                   stream_complete, now, phrase_bytes, phrase_time,
                   phrase_complete, audio_chunks, transcription, events,
                   ingested, appended, hist, phrase_no, ended, append_clock,
                   stale>>
    /\ UNCHANGED <<connected, alignVars, stopVars, otherVars>>

\* lines 134-137: np.frombuffer, then whisper_model.transcribe is entered
TranscribeCall ==
    /\ pc = "call"
    /\ IF FromBufferOk(phrase_bytes)
       THEN /\ inflight' = inflight + 1
            /\ calls' = Append(calls, [buf |-> phrase_bytes,
                                       is_final |-> phrase_complete,
                                       phrase |-> phrase_no])
            /\ pc' = "transcribing"
            /\ UNCHANGED events
       ELSE \* ValueError reaches the handler of line 158
            /\ events' = Append(events, Event("error", <<>>, FALSE, "ValueError", phrase_no))
            /\ pc' = AfterYield("done")
            /\ UNCHANGED <<inflight, calls>>
    /\ UNCHANGED <<body_chunks, sample_rate, clock, nread, reader_alive, data_queue,
                   stream_complete, now, phrase_bytes, phrase_time,
                   phrase_complete, audio_chunks, transcription, ingested,
                   appended, hist, phrase_no, ended, append_clock, stale>>
    /\ UNCHANGED <<connected, alignVars, stopVars, otherVars>>

\* lines 137-150: transcribe returns; the list is updated and the event yielded
TranscribeReturn ==
    /\ pc = "transcribing"
    /\ inflight' = inflight - 1
    /\ LET text == Strip(Whisper(phrase_bytes))
       IN /\ transcription' =
                IF phrase_complete THEN Append(transcription, text)
                ELSE [transcription EXCEPT ![Len(transcription)] = text]
          /\ events' = Append(events,
                Event("transcription", text, phrase_complete, "", phrase_no))
    /\ pc' = AfterYield("loop")
    /\ UNCHANGED <<body_chunks, sample_rate, clock, nread, reader_alive, data_queue,
                   stream_complete, now, phrase_bytes, phrase_time,
                   phrase_complete, audio_chunks, ingested, appended, hist,
                   calls, phrase_no, ended, append_clock, stale>>
    /\ UNCHANGED <<connected, alignVars, stopVars, otherVars>>

\* mutant of TranscribeRaise: the error event is yielded inside the loop,
\* which goes on
TranscribeRaise_Continue ==
    /\ pc = "transcribing"
    /\ inflight' = inflight - 1
    /\ events' = Append(events, Event("error", <<>>, FALSE, "TranscriptionError", phrase_no))
    /\ pc' = AfterYield("loop")
    /\ UNCHANGED <<body_chunks, sample_rate, clock, nread, reader_alive, data_queue,
                   stream_complete, now, phrase_bytes, phrase_time,
                   phrase_complete, audio_chunks, transcription, ingested,
                   appended, hist, calls, phrase_no, ended, append_clock,
                   stale>>
    /\ UNCHANGED <<connected, alignVars, stopVars, otherVars>>

\* lines 137, 158-159: transcribe raises; the handler outside the loop yields
\* the error event and the generator returns
TranscribeRaise ==
    /\ pc = "transcribing"
    /\ inflight' = inflight - 1
    /\ events' = Append(events, Event("error", <<>>, FALSE, "TranscriptionError", phrase_no))
    /\ pc' = AfterYield("done")
    /\ UNCHANGED <<body_chunks, sample_rate, clock, nread, reader_alive, data_queue,
                   stream_complete, now, phrase_bytes, phrase_time,
                   phrase_complete, audio_chunks, transcription, ingested,
                   appended, hist, calls, phrase_no, ended, append_clock,
                   stale>>
    /\ UNCHANGED <<connected, alignVars, stopVars, otherVars>>

\* line 152: sleep(0.1)
Sleep ==
    /\ pc = "sleep"
    /\ pc' = "loop"
    /\ UNCHANGED <<body_chunks, sample_rate, clock, nread, reader_alive, data_queue,
                   stream_complete, now, phrase_bytes, phrase_time,
                   phrase_complete, audio_chunks, transcription, events,
                   inflight, ingested, appended, hist, calls, phrase_no,
                   ended, append_clock, stale>>
    /\ UNCHANGED <<connected, alignVars, stopVars, otherVars>>

\* lines 155-156: the final event
YieldFinal ==
    /\ pc = "final"
    /\ events' = Append(events, Event("final", Strip(Join(transcription)), FALSE, "", 0))
    /\ pc' = AfterYield("done")
    /\ UNCHANGED <<body_chunks, sample_rate, clock, nread, reader_alive, data_queue,
                   stream_complete, now, phrase_bytes, phrase_time,
                   phrase_complete, audio_chunks, transcription, inflight,
                   ingested, appended, hist, calls, phrase_no, ended,
                   append_clock, stale>>
    /\ UNCHANGED <<connected, alignVars, stopVars, otherVars>>

Next ==
    \/ Tick
    \/ Disconnect
    \/ ReaderPut
    \/ ReaderEOF
    \/ ReaderError
    \/ YieldStatus
    \/ LoopHead
    \/ Drain
    \/ DrainEnd
    \/ TranscribeCall
    \/ TranscribeReturn
    \/ TranscribeRaise
    \/ Sleep
    \/ YieldFinal

Spec == Init /\ [][Next]_vars

\* the steps of generate_transcriptions
Generator ==
    \/ YieldStatus
    \/ LoopHead
    \/ Drain
    \/ DrainEnd
    \/ TranscribeCall
    \/ TranscribeReturn
    \/ TranscribeRaise
    \/ Sleep
    \/ YieldFinal

\* a /verbatim request at sample rate 2
InitLive ==
    /\ InitVerbatim({2})
    /\ AlignIdle
    /\ MergeIdle
    /\ StopIdle
    /\ OthersIdle

\* a /verbatim request at sample rate 2 whose body holds one chunk more
InitText ==
    /\ InitRequest({2}, MaxChunks + 1)
    /\ AlignIdle
    /\ MergeIdle
    /\ StopIdle
    /\ OthersIdle

SpecText == InitText /\ [][Next]_vars

\* the server keeps iterating the response generator for as long as it has
\* not returned, and a Transcriber call comes back
SpecLive == InitLive /\ [][Next]_vars /\ WF_vars(Generator)

(***************************************************************************)
(* Post-session alignment: test_architecture.py, lines 342-428.            *)
(* A Python value that may be a float, a SpeakerSegment or None is kept    *)
(* with its type: comparing a float with a SpeakerSegment raises           *)
(* TypeError.                                                              *)
(***************************************************************************)
PyNone == [tag |-> "None"]
PyFloat(x) == [tag |-> "float", v |-> x]
PySegment(seg) == [tag |-> "SpeakerSegment", v |-> seg]
TypeError == [tag |-> "TypeError"]

Max2(a, b) == IF a >= b THEN a ELSE b
Min2(a, b) == IF a <= b THEN a ELSE b

\* lines 342-346
get_last_segment(diarization_segments) ==
    IF diarization_segments = <<>> THEN PyNone
    ELSE PySegment(diarization_segments[Len(diarization_segments)])

\* mutant of IsLonger: a later segment with the same overlap replaces the
\* best match
IsLonger_OrEqual(intersection_length, max_intersection) ==
    intersection_length >= max_intersection

\* line 362: intersection_length > max_intersection
IsLonger(intersection_length, max_intersection) ==
    intersection_length > max_intersection

RECURSIVE BestMatchFrom(_, _, _, _, _, _)
\* lines 352-366: the loop from segment i on, with the best match so far
BestMatchFrom(segs, i, start_time, end_time, best_match, max_intersection) ==
    IF i > Len(segs) THEN best_match
    ELSE IF end_time.tag # "float" THEN TypeError  \* min(end_time, turn_end)
    ELSE
        LET segment == segs[i]
            intersection_start == Max2(start_time, segment.start)
            intersection_end == Min2(end_time.v, segment.end)
            intersection_length == intersection_end - intersection_start
        IN IF intersection_start < intersection_end
              /\ IsLonger(intersection_length, max_intersection)
           THEN BestMatchFrom(segs, i + 1, start_time, end_time,
                    [tag |-> "match", start |-> segment.start,
                     end |-> segment.end, speaker |-> segment.speaker_id],
                    intersection_length)
           ELSE BestMatchFrom(segs, i + 1, start_time, end_time,
                    best_match, max_intersection)

\* lines 348-366
find_best_match(diarization_segments, start_time, end_time) ==
    BestMatchFrom(diarization_segments, 1, start_time, end_time, PyNone, 0)

\* mutant of MergedTuple: the merged tuple keeps the first tuple's end
MergedTuple_KeepsEnd(previous_segment, segment) ==
    [speaker |-> previous_segment.speaker,
     start |-> previous_segment.start,
     end |-> previous_segment.end,
     text |-> previous_segment.text \o segment.text]

\* lines 378-383: the tuple two consecutive tuples of one speaker become
MergedTuple(previous_segment, segment) ==
    [speaker |-> previous_segment.speaker,
     start |-> previous_segment.start,
     end |-> segment.end,
     text |-> previous_segment.text \o segment.text]

RECURSIVE MergeFrom_Pairwise(_, _, _, _)
\* mutant of MergeFrom: a merged pair is appended at once, and the next
\* tuple starts afresh
MergeFrom_Pairwise(segs, i, previous_segment, merged) ==
    IF i > Len(segs)
    THEN IF previous_segment = PyNone THEN merged
         ELSE Append(merged, previous_segment)
    ELSE IF previous_segment = PyNone
    THEN MergeFrom_Pairwise(segs, i + 1, segs[i], merged)
    ELSE IF segs[i].speaker = previous_segment.speaker
    THEN MergeFrom_Pairwise(segs, i + 1, PyNone,
            Append(merged, MergedTuple(previous_segment, segs[i])))
    ELSE MergeFrom_Pairwise(segs, i + 1, segs[i], Append(merged, previous_segment))

RECURSIVE MergeFrom(_, _, _, _)
\* lines 372-391: the loop from tuple i on; previous_segment is PyNone or a
\* tuple
MergeFrom(segs, i, previous_segment, merged) ==
    IF i > Len(segs)
    THEN IF previous_segment = PyNone THEN merged
         ELSE Append(merged, previous_segment)
    ELSE IF previous_segment = PyNone
    THEN MergeFrom(segs, i + 1, segs[i], merged)
    ELSE IF segs[i].speaker = previous_segment.speaker
    THEN MergeFrom(segs, i + 1, MergedTuple(previous_segment, segs[i]), merged)
    ELSE MergeFrom(segs, i + 1, segs[i], Append(merged, previous_segment))

\* lines 368-391
merge_consecutive_segments(segs) == MergeFrom(segs, 1, PyNone, <<>>)

\* lines 415-418: the end of a chunk, None replaced
chunk_end_of(chunk, last_segment) ==
    IF chunk.end = None
    THEN IF last_segment # PyNone THEN last_segment ELSE PyFloat(chunk.start)
    ELSE PyFloat(chunk.end)

RECURSIVE AlignFrom(_, _, _, _, _)
\* lines 410-424: the loop from chunk i on; a TypeError leaves the function
AlignFrom(segs, chunks, i, last_segment, acc) ==
    IF i > Len(chunks) THEN [tag |-> "ok", tuples |-> acc]
    ELSE
        LET chunk == chunks[i]
            chunk_end == chunk_end_of(chunk, last_segment)
            best_match == find_best_match(segs, chunk.start, chunk_end)
        IN IF best_match = TypeError THEN TypeError
           ELSE IF best_match # PyNone
           THEN AlignFrom(segs, chunks, i + 1, last_segment,
                    Append(acc, [speaker |-> best_match.speaker,
                                 start |-> chunk.start,
                                 end |-> chunk_end.v,
                                 text |-> chunk.text]))
           ELSE AlignFrom(segs, chunks, i + 1, last_segment, acc)

\* lines 407-428: the turns, or the exception that leaves the function
process_diarization(segs, chunks) ==
    LET aligned == AlignFrom(segs, chunks, 1, get_last_segment(segs), <<>>)
    IN IF aligned = TypeError THEN TypeError
       ELSE [tag |-> "ok", turns |-> merge_consecutive_segments(aligned.tuples)]

\* the speaker segments a Diarizer may return
SegmentValues ==
    {[speaker_id |-> sp, start |-> a, end |-> b] :
        sp \in Speakers, a \in TimeVals, b \in TimeVals}

SegmentDomain == {seg \in SegmentValues : seg.start < seg.end}

\* the timestamps a chunk may carry; the end may be None
ChunkTimes ==
    {[start |-> a, end |-> b] : a \in TimeVals, b \in TimeVals \cup {None}}

ChunkTimeDomain == {t \in ChunkTimes : t.end = None \/ t.start <= t.end}

\* lists of at most n elements of S
SeqsUpTo(S, n) == UNION {[1..k -> S] : k \in 0..n}

\* the recording of two speakers, in half seconds: A speaks from 0 s to 2 s,
\* B from 2 s to 4 s
TwoSpeakerSegments ==
    <<[speaker_id |-> "A", start |-> 0, end |-> 4],
      [speaker_id |-> "B", start |-> 4, end |-> 8]>>

\* its transcript, in half seconds: chunk 1 "hi" 0-1 s, chunk 2 "there"
\* 1-2 s, chunk 3 "bob" 2.5-3.5 s
TwoSpeakerChunks ==
    <<[text |-> <<1>>, start |-> 0, end |-> 2],
      [text |-> <<2>>, start |-> 2, end |-> 4],
      [text |-> <<3>>, start |-> 5, end |-> 7]>>

\* segments and timestamps are what the two endpoints answer for the
\* recording; when the diarization endpoint fails there is no answer
InitAlign ==
    /\ InitVerbatim({2})
    /\ MergeIdle
    /\ StopIdle
    /\ OthersIdle
    /\ align_pc = "start"
    /\ \/ /\ diarizer_ok = TRUE
          /\ segments \in SeqsUpTo(SegmentDomain, MaxSegments)
          /\ \E ts \in SeqsUpTo(ChunkTimeDomain, MaxAlignChunks) :
              \* chunk i carries the text <<i>>
              timestamps = [i \in 1..Len(ts) |->
                  [text |-> <<i>>, start |-> ts[i].start, end |-> ts[i].end]]
       \/ /\ diarizer_ok = TRUE
          /\ segments = TwoSpeakerSegments
          /\ timestamps = TwoSpeakerChunks
       \/ /\ diarizer_ok = FALSE
          /\ segments = <<>>
          /\ timestamps = <<>>
    /\ speaker_transcriptions = PyNone
    /\ best_matches = <<>>
    /\ provisional = PyNone
    /\ diarizer_calls = 0
    /\ transcriber_calls = 0
    /\ process_pc = "start"
    /\ process_result = PyNone

\* test_architecture.py lines 312-326: diarize_audio raises ValueError when
\* the endpoint does not answer 200
ValueError == [tag |-> "ValueError"]

\* process_diarization, lines 393-428: diarize_audio (line 399), then
\* transcribe_audio (line 400), then the alignment
ProcessDiarization ==
    /\ align_pc = "start"
    /\ diarizer_calls' = diarizer_calls + 1
    /\ IF diarizer_ok
       THEN /\ transcriber_calls' = transcriber_calls + 1
            /\ speaker_transcriptions' = process_diarization(segments, timestamps)
            /\ best_matches' = [i \in 1..Len(timestamps) |->
                    find_best_match(segments, timestamps[i].start,
                        chunk_end_of(timestamps[i], get_last_segment(segments)))]
            /\ provisional' = AlignFrom(segments, timestamps, 1,
                                        get_last_segment(segments), <<>>)
       ELSE \* the exception of line 399 leaves process_diarization
            /\ speaker_transcriptions' = ValueError
            /\ UNCHANGED <<transcriber_calls, best_matches, provisional>>
    /\ align_pc' = "done"
    /\ UNCHANGED <<segments, timestamps, diarizer_ok, process_pc,
                   process_result, merge_pc, merge_input, merged_segments,
                   remerged, verbatimVars, stopVars,
                   otherVars>>

\* test_diarize.py lines 49-102: get_diarization answers the segments, and
\* [] for every failure
get_diarization(ok, segs) == IF ok THEN segs ELSE <<>>

RECURSIVE TurnsFrom(_, _, _)
\* test_diarize.py lines 170-189: one transcribe_segment per segment i; the
\* segments whose text is not empty (those of `heard`) become turns
TurnsFrom(segs, i, heard) ==
    IF i > Len(segs) THEN <<>>
    ELSE (IF i \in heard
          THEN <<[speaker |-> segs[i].speaker_id, start |-> segs[i].start,
                  end |-> segs[i].end, text |-> <<i>>]>>
          ELSE <<>>) \o TurnsFrom(segs, i + 1, heard)

\* AudioDiarizer.process, test_diarize.py lines 194-220
AudioDiarizerProcess ==
    /\ process_pc = "start"
    /\ LET got == get_diarization(diarizer_ok, segments)
       IN IF got = <<>>
          THEN process_result' = [tag |-> "ok", turns |-> <<>>,
                                  diarizer_calls |-> 1, transcriber_calls |-> 0]
          ELSE \E heard \in SUBSET (1..Len(got)) :
                process_result' = [tag |-> "ok",
                                   turns |-> TurnsFrom(got, 1, heard),
                                   diarizer_calls |-> 1,
                                   transcriber_calls |-> Len(got)]
    /\ process_pc' = "done"
    /\ UNCHANGED <<align_pc, segments, timestamps, speaker_transcriptions,
                   best_matches, provisional, diarizer_ok, diarizer_calls,
                   transcriber_calls, merge_pc, merge_input, merged_segments,
                   remerged, verbatimVars, stopVars,
                   otherVars>>

NextAlign == ProcessDiarization \/ AudioDiarizerProcess

SpecAlign == InitAlign /\ [][NextAlign]_vars

(***************************************************************************)
(* merge_consecutive_segments on its own: test_architecture.py, lines      *)
(* 368-391, applied to a list of tuples and then to its own result.        *)
(***************************************************************************)
\* the (speaker, start, end) a tuple may carry
TupleValues ==
    {[speaker |-> sp, start |-> a, end |-> b] :
        sp \in Speakers, a \in TimeVals, b \in TimeVals}

TupleDomain == {t \in TupleValues : t.start <= t.end}

InitMerge ==
    /\ InitVerbatim({2})
    /\ AlignIdle
    /\ StopIdle
    /\ OthersIdle
    /\ merge_pc = "start"
    /\ \E ts \in SeqsUpTo(TupleDomain, MaxTuples) :
        \* tuple i carries the text <<i>>
        merge_input = [i \in 1..Len(ts) |->
            [speaker |-> ts[i].speaker, start |-> ts[i].start,
             end |-> ts[i].end, text |-> <<i>>]]
    /\ merged_segments = <<>>
    /\ remerged = <<>>

\* merge_consecutive_segments(segments), lines 368-391
MergeConsecutive ==
    /\ merge_pc = "start"
    /\ merged_segments' = merge_consecutive_segments(merge_input)
    /\ merge_pc' = "merged"
    /\ UNCHANGED <<merge_input, remerged, align_pc, segments, timestamps,
                   speaker_transcriptions, best_matches, provisional,
                   diarizer_ok, diarizer_calls, transcriber_calls, process_pc,
                   process_result, verbatimVars, stopVars,
                   otherVars>>

\* merge_consecutive_segments applied to its own result
MergeAgain ==
    /\ merge_pc = "merged"
    /\ remerged' = merge_consecutive_segments(merged_segments)
    /\ merge_pc' = "remerged"
    /\ UNCHANGED <<merge_input, merged_segments, align_pc, segments,
                   timestamps, speaker_transcriptions, best_matches,
                   provisional, diarizer_ok, diarizer_calls,
                   transcriber_calls, process_pc, process_result,
                   verbatimVars, stopVars,
                   otherVars>>

NextMerge == MergeConsecutive \/ MergeAgain

SpecMerge == InitMerge /\ [][NextMerge]_vars

(***************************************************************************)
(* The end of a LiveDiarizationStreamer session: test_architecture.py,     *)
(* start (lines 124-205), record_callback (207-215), save_audio (255-287)  *)
(* and stop (431-456).  The main thread runs the live loop and, after      *)
(* KeyboardInterrupt, the stop sequence; the thread started by             *)
(* listen_in_background calls record_callback for each recording, and      *)
(* stop_listening(wait_for_stop=False) tells it to stop without waiting    *)
(* for it.                                                                 *)
(***************************************************************************)
\* lines 126-140: is_running is set and the listener started
InitStop ==
    /\ InitVerbatim({2})
    /\ AlignIdle
    /\ MergeIdle
    /\ OthersIdle
    /\ main_pc = "live"
    /\ listener_pc = "listen"
    /\ listening = TRUE
    /\ is_running = TRUE
    /\ captured = 0
    /\ all_audio_frames = <<>>
    /\ audio_queue = <<>>
    /\ recorded = <<>>

\* the listener has a recording, finds it has not been told to stop, and
\* enters record_callback (lines 207-209)
ListenerCapture ==
    /\ listener_pc = "listen"
    /\ listening
    /\ captured < MaxFrames
    /\ captured' = captured + 1
    /\ listener_pc' = "append"
    /\ UNCHANGED <<main_pc, listening, is_running, all_audio_frames,
                   audio_queue, recorded>>
    /\ UNCHANGED <<verbatimVars, alignVars, otherVars>>

\* line 212: self.all_audio_frames.append(data)
RecordAppend ==
    /\ listener_pc = "append"
    /\ all_audio_frames' = Append(all_audio_frames, captured)
    /\ listener_pc' = "put"
    /\ UNCHANGED <<main_pc, listening, is_running, captured, audio_queue,
                   recorded>>
    /\ UNCHANGED <<verbatimVars, alignVars, otherVars>>

\* line 215: self.audio_queue.put(data)
RecordPut ==
    /\ listener_pc = "put"
    /\ audio_queue' = Append(audio_queue, captured)
    /\ listener_pc' = "listen"
    /\ UNCHANGED <<main_pc, listening, is_running, captured,
                   all_audio_frames, recorded>>
    /\ UNCHANGED <<verbatimVars, alignVars, otherVars>>

\* the listener finds it has been told to stop and ends
ListenerExit ==
    /\ listener_pc = "listen"
    /\ ~listening
    /\ listener_pc' = "stopped"
    /\ UNCHANGED <<main_pc, listening, is_running, captured,
                   all_audio_frames, audio_queue, recorded>>
    /\ UNCHANGED <<verbatimVars, alignVars, otherVars>>

\* lines 147-161: the live loop takes what is in the queue
LiveTake ==
    /\ main_pc = "live"
    /\ audio_queue # <<>>
    /\ audio_queue' = <<>>
    /\ UNCHANGED <<main_pc, listener_pc, listening, is_running, captured,
                   all_audio_frames, recorded>>
    /\ UNCHANGED <<verbatimVars, alignVars, otherVars>>

\* lines 191-193: KeyboardInterrupt leaves the live loop
KeyboardInterrupt ==
    /\ main_pc = "live"
    /\ main_pc' = "interrupted"
    /\ UNCHANGED <<listener_pc, listening, is_running, captured,
                   all_audio_frames, audio_queue, recorded>>
    /\ UNCHANGED <<verbatimVars, alignVars, otherVars>>

\* lines 202-205: stop_listening(wait_for_stop=False), then stop()
StopListening ==
    /\ main_pc = "interrupted"
    /\ IF is_running
       THEN listening' = FALSE /\ main_pc' = "stop"
       ELSE listening' = listening /\ main_pc' = "done"
    /\ UNCHANGED <<listener_pc, is_running, captured, all_audio_frames,
                   audio_queue, recorded>>
    /\ UNCHANGED <<verbatimVars, alignVars, otherVars>>

\* lines 431-439: stop() clears is_running and terminates PyAudio
Stop ==
    /\ main_pc = "stop"
    /\ is_running' = FALSE
    /\ main_pc' = "save"
    /\ UNCHANGED <<listener_pc, listening, captured, all_audio_frames,
                   audio_queue, recorded>>
    /\ UNCHANGED <<verbatimVars, alignVars, otherVars>>

\* lines 257-265 and 447-450: save_audio reads the recorded frames; with no
\* frame stop() returns
SaveAudio ==
    /\ main_pc = "save"
    /\ recorded' = all_audio_frames
    /\ main_pc' = IF all_audio_frames = <<>> THEN "done" ELSE "diarize"
    /\ UNCHANGED <<listener_pc, listening, is_running, captured,
                   all_audio_frames, audio_queue>>
    /\ UNCHANGED <<verbatimVars, alignVars, otherVars>>

\* lines 455-458: process_diarization on the saved file
Diarize ==
    /\ main_pc = "diarize"
    /\ main_pc' = "done"
    /\ UNCHANGED <<listener_pc, listening, is_running, captured,
                   all_audio_frames, audio_queue, recorded>>
    /\ UNCHANGED <<verbatimVars, alignVars, otherVars>>

NextStop ==
    \/ ListenerCapture
    \/ RecordAppend
    \/ RecordPut
    \/ ListenerExit
    \/ LiveTake
    \/ KeyboardInterrupt
    \/ StopListening
    \/ Stop
    \/ SaveAudio
    \/ Diarize

SpecStop == InitStop /\ [][NextStop]_vars

(***************************************************************************)
(* The Flask process and its models: app.py, routes/transcription.py and   *)
(* routes/diarization.py.  Requests are handled by concurrent threads;     *)
(* each action is one step of one request.                                 *)
(***************************************************************************)
InitModels ==
    /\ InitVerbatim({2})
    /\ AlignIdle
    /\ MergeIdle
    /\ StopIdle
    /\ StreamIdle
    /\ server_pc = "boot"
    /\ whisper_transcriber = None
    /\ transcribers_built = 0
    /\ pipelines_built = 0
    /\ requests = <<>>

\* routes/transcription.py lines 69-75: init_whisper_model constructs the
\* transcriber when the global is None; the result is <<global, built>>
init_whisper_model(global, built) ==
    IF global = None THEN <<built + 1, built + 1>> ELSE <<global, built>>

\* app.py lines 21-29: the model is initialised, then the blueprints are
\* registered and requests are served
Startup ==
    /\ server_pc = "boot"
    /\ LET r == init_whisper_model(whisper_transcriber, transcribers_built)
       IN /\ whisper_transcriber' = r[1]
          /\ transcribers_built' = r[2]
    /\ server_pc' = "serving"
    /\ UNCHANGED <<pipelines_built, requests>>
    /\ UNCHANGED <<verbatimVars, alignVars, stopVars, streamVars>>

\* a header as the handler sees it: absent, an integer literal or other text
Absent == [kind |-> "absent", val |-> 0]

IntHeader(n) == [kind |-> "int", val |-> n]

TextHeader == [kind |-> "text", val |-> 0]

\* a header or body the handler has not read
Unread == [kind |-> "unread", val |-> 0]

\* X-Sample-Rate, X-Min-Speakers and X-Max-Speakers values a client sends
RateHeaders == {Absent, IntHeader(16000), IntHeader(11025), TextHeader}

MinHeaders == {Absent, IntHeader(0), IntHeader(2), TextHeader}

MaxHeaders == {Absent, IntHeader(1), TextHeader}

\* JSON bodies of a request with content type application/json: a value
\* that is not an object (null, a list), an object without audio_path, an
\* audio_path naming no file, a file that is not a WAV file, a WAV file
JsonBodies == {"no_object", "no_path", "missing_file", "not_wav", "wav"}

\* raw bodies: no bytes, an odd number of bytes, an even number of bytes
RawBodies == {"empty", "odd", "even"}

\* request.get_data() of a raw body, as bytes
RawBytes(body) == IF body = "odd" THEN <<1>> ELSE IF body = "even" THEN <<1, 2>> ELSE <<>>

\* int(request.headers.get(name, default)): ValueError for other text
IntParses(h) == h.kind # "text"

IntOf(h, default) == IF h.kind = "absent" THEN default ELSE h.val

\* json_data.get('audio_path') raises AttributeError when request.get_json()
\* returned None or a list (diarization.py lines 63-64, transcription.py
\* lines 117-118)
GetAudioPathRaises(body) == body = "no_object"

\* `not audio_path or not os.path.exists(audio_path)` (diarization.py line
\* 66, transcription.py line 120)
AudioPathRejected(body) == body \in {"no_path", "missing_file"}

\* diarization.py line 91
SupportedRates == {8000, 16000, 22050, 44100, 48000}

\* diarization.py line 136: `min_speakers < 1 or max_speakers < min_speakers`
SpeakersRejected(min, max) == min < 1 \/ max < min

\* diarization.py lines 57-58 and the fields every request starts with
NewRequest(route) ==
    [route |-> route, pc |-> "received", model |-> None, status |-> 0,
     ctype |-> "unread", body |-> "unread", rate |-> Unread,
     min |-> Unread, max |-> Unread, token |-> "unread",
     temp_audio_path |-> "None", cleanup_temp |-> FALSE,
     caller_file |-> "none", temp_file |-> "none",
     invoked |-> FALSE, raised |-> FALSE, success |-> "unset"]

\* a request reaches one of the two registered routes (app.py lines 28-29)
Arrive ==
    /\ server_pc = "serving"
    /\ Len(requests) < MaxRequests
    /\ \E route \in {"transcription", "diarization"} :
        requests' = Append(requests, NewRequest(route))
    /\ UNCHANGED <<server_pc, whisper_transcriber, transcribers_built,
                   pipelines_built>>
    /\ UNCHANGED <<verbatimVars, alignVars, stopVars, streamVars>>

\* transcribe_audio, lines 102-106: the handler initialises the model if
\* the global is None
TranscribeCheckModel(r) ==
    /\ requests[r].route = "transcription"
    /\ requests[r].pc = "received"
    /\ LET m == init_whisper_model(whisper_transcriber, transcribers_built)
       IN /\ whisper_transcriber' = m[1]
          /\ transcribers_built' = m[2]
    /\ requests' = [requests EXCEPT ![r].pc = "validate"]
    /\ UNCHANGED <<server_pc, pipelines_built>>
    /\ UNCHANGED <<verbatimVars, alignVars, stopVars, streamVars>>

\* a return statement of a handler: the response and its status
Respond(req, status) ==
    [req EXCEPT !.pc = "done", !.status = status, !.success = (status = 200)]

\* transcribe_audio, lines 108-125 and 147-152: content type, then the
\* JSON body and audio_path; an exception is answered with status 500
TranscribeValidate(r) ==
    /\ requests[r].route = "transcription"
    /\ requests[r].pc = "validate"
    /\ \E ctype \in {"json", "other"}, body \in JsonBodies \ {"not_wav"} :
        LET req == requests[r]
            read == [req EXCEPT !.ctype = ctype, !.body = body,
                         !.caller_file = IF body = "wav" THEN "exists" ELSE "none"]
        IN requests' = [requests EXCEPT ![r] =
            IF ctype # "json"
            THEN Respond([req EXCEPT !.ctype = ctype], 400)
            ELSE IF GetAudioPathRaises(body) THEN Respond(read, 500)
            ELSE IF AudioPathRejected(body) THEN Respond(read, 400)
            ELSE [read EXCEPT !.pc = "infer"]]
    /\ UNCHANGED <<server_pc, whisper_transcriber, transcribers_built,
                   pipelines_built>>
    /\ UNCHANGED <<verbatimVars, alignVars, stopVars, streamVars>>

\* transcribe_audio, lines 127-145, and WhisperAudioTranscriber.transcribe,
\* lines 58-66: the shared instance is applied; an exception inside it is
\* returned as (None, None), which the handler answers with status 500
TranscribeInfer(r) ==
    /\ requests[r].route = "transcription"
    /\ requests[r].pc = "infer"
    /\ \E ok \in BOOLEAN :
        requests' = [requests EXCEPT ![r] =
            Respond([@ EXCEPT !.model = whisper_transcriber,
                              !.invoked = TRUE, !.raised = ~ok],
                    IF ok THEN 200 ELSE 500)]
    /\ UNCHANGED <<server_pc, whisper_transcriber, transcribers_built,
                   pipelines_built>>
    /\ UNCHANGED <<verbatimVars, alignVars, stopVars, streamVars>>

\* diarize_audio, lines 209-212: the finally clause removes the file named
\* by temp_audio_path when cleanup_temp is set and the file exists
Finally_AnyPath(req) ==
    IF req.temp_audio_path = "temp" /\ req.temp_file = "exists"
    THEN [req EXCEPT !.temp_file = "removed"]
    ELSE IF req.temp_audio_path = "caller" /\ req.caller_file = "exists"
    THEN [req EXCEPT !.caller_file = "removed"]
    ELSE req

Finally(req) ==
    IF req.cleanup_temp /\ req.temp_audio_path = "temp" /\ req.temp_file = "exists"
    THEN [req EXCEPT !.temp_file = "removed"]
    ELSE IF req.cleanup_temp /\ req.temp_audio_path = "caller" /\ req.caller_file = "exists"
    THEN [req EXCEPT !.caller_file = "removed"]
    ELSE req

\* a return statement inside the try block of diarize_audio, or its except
\* clause (lines 202-207): the response, then the finally clause
Leave(req, status) == Finally(Respond(req, status))

\* diarize_audio, lines 62-79: a JSON request names a file of the caller
DiarizeJson(r) ==
    /\ requests[r].route = "diarization"
    /\ requests[r].pc = "received"
    /\ \E body \in JsonBodies :
        LET read == [requests[r] EXCEPT !.ctype = "json", !.body = body,
                         !.caller_file = IF body \in {"not_wav", "wav"}
                                         THEN "exists" ELSE "none"]
            named == [read EXCEPT !.temp_audio_path = "caller",
                                  !.cleanup_temp = FALSE]
        IN requests' = [requests EXCEPT ![r] =
            IF GetAudioPathRaises(body) THEN Leave(read, 500)
            ELSE IF AudioPathRejected(body) THEN Leave(read, 400)
            ELSE IF body = "not_wav" THEN Leave(named, 500)
            ELSE [named EXCEPT !.pc = "speakers"]]
    /\ UNCHANGED <<server_pc, whisper_transcriber, transcribers_built,
                   pipelines_built>>
    /\ UNCHANGED <<verbatimVars, alignVars, stopVars, streamVars>>

\* diarize_audio, lines 80-105: a raw body, its sample rate header and its
\* conversion to 16-bit samples, which raises for an odd number of bytes
DiarizeRaw(r) ==
    /\ requests[r].route = "diarization"
    /\ requests[r].pc = "received"
    /\ \E body \in RawBodies, rate \in RateHeaders :
        LET got == [requests[r] EXCEPT !.ctype = "raw", !.body = body]
            read == [got EXCEPT !.rate = rate]
        IN requests' = [requests EXCEPT ![r] =
            IF RawBytes(body) = <<>> THEN Leave(got, 400)
            ELSE IF ~IntParses(rate) THEN Leave(read, 400)
            ELSE IF IntOf(rate, 16000) \notin SupportedRates THEN Leave(read, 400)
            ELSE IF ~FromBufferOk(RawBytes(body)) THEN Leave(read, 500)
            ELSE [read EXCEPT !.pc = "tempfile"]]
    /\ UNCHANGED <<server_pc, whisper_transcriber, transcribers_built,
                   pipelines_built>>
    /\ UNCHANGED <<verbatimVars, alignVars, stopVars, streamVars>>

\* diarize_audio, lines 108-111: the temporary file is created and closed,
\* and cleanup_temp is set
DiarizeTempFile(r) ==
    /\ requests[r].route = "diarization"
    /\ requests[r].pc = "tempfile"
    /\ requests' = [requests EXCEPT ![r].temp_audio_path = "temp",
                                    ![r].temp_file = "exists",
                                    ![r].cleanup_temp = TRUE,
                                    ![r].pc = "write"]
    /\ UNCHANGED <<server_pc, whisper_transcriber, transcribers_built,
                   pipelines_built>>
    /\ UNCHANGED <<verbatimVars, alignVars, stopVars, streamVars>>

\* diarize_audio, lines 114-120: the samples are written to the temporary
\* file; an I/O error is an exception of the outer try block
DiarizeWriteWav(r) ==
    /\ requests[r].route = "diarization"
    /\ requests[r].pc = "write"
    /\ \E ok \in BOOLEAN :
        requests' = [requests EXCEPT ![r] =
            IF ok THEN [@ EXCEPT !.pc = "speakers"] ELSE Leave(@, 500)]
    /\ UNCHANGED <<server_pc, whisper_transcriber, transcribers_built,
                   pipelines_built>>
    /\ UNCHANGED <<verbatimVars, alignVars, stopVars, streamVars>>

\* diarize_audio, lines 125-140: the speaker bounds
DiarizeSpeakers(r) ==
    /\ requests[r].route = "diarization"
    /\ requests[r].pc = "speakers"
    /\ \E min \in MinHeaders, max \in MaxHeaders :
        LET gotmin == [requests[r] EXCEPT !.min = min]
            read == [gotmin EXCEPT !.max = max]
        IN requests' = [requests EXCEPT ![r] =
            IF ~IntParses(min) THEN Leave(gotmin, 400)
            ELSE IF ~IntParses(max) THEN Leave(read, 400)
            ELSE IF SpeakersRejected(IntOf(min, 1), IntOf(max, 10)) THEN Leave(read, 400)
            ELSE [read EXCEPT !.pc = "token"]]
    /\ UNCHANGED <<server_pc, whisper_transcriber, transcribers_built,
                   pipelines_built>>
    /\ UNCHANGED <<verbatimVars, alignVars, stopVars, streamVars>>

\* diarize_audio, lines 142-149: HF_TOKEN is read from the environment
DiarizeToken(r) ==
    /\ requests[r].route = "diarization"
    /\ requests[r].pc = "token"
    /\ \E token \in {"set", "missing"} :
        requests' = [requests EXCEPT ![r] =
            IF token = "missing"
            THEN Leave([@ EXCEPT !.token = token], 500)
            ELSE [@ EXCEPT !.token = token, !.pc = "load"]]
    /\ UNCHANGED <<server_pc, whisper_transcriber, transcribers_built,
                   pipelines_built>>
    /\ UNCHANGED <<verbatimVars, alignVars, stopVars, streamVars>>

\* diarize_audio, lines 151-162: Pipeline.from_pretrained builds a pipeline
\* for this request, or fails with status 500
DiarizeLoadPipeline(r) ==
    /\ requests[r].route = "diarization"
    /\ requests[r].pc = "load"
    /\ \/ /\ pipelines_built' = pipelines_built + 1
          /\ requests' = [requests EXCEPT ![r].pc = "infer",
                                          ![r].model = pipelines_built + 1]
       \/ /\ requests' = [requests EXCEPT ![r] = Leave(@, 500)]
          /\ UNCHANGED pipelines_built
    /\ UNCHANGED <<server_pc, whisper_transcriber, transcribers_built>>
    /\ UNCHANGED <<verbatimVars, alignVars, stopVars, streamVars>>

\* diarize_audio, lines 164-212: the pipeline is moved to the device and
\* applied to the file; the answer is 200, or 500 when it raises
DiarizeInfer(r) ==
    /\ requests[r].route = "diarization"
    /\ requests[r].pc = "infer"
    /\ \E ok \in BOOLEAN :
        requests' = [requests EXCEPT ![r] =
            Leave([@ EXCEPT !.invoked = TRUE, !.raised = ~ok],
                  IF ok THEN 200 ELSE 500)]
    /\ UNCHANGED <<server_pc, whisper_transcriber, transcribers_built,
                   pipelines_built>>
    /\ UNCHANGED <<verbatimVars, alignVars, stopVars, streamVars>>

NextModels ==
    \/ Startup
    \/ Arrive
    \/ \E r \in 1..Len(requests) :
        \/ TranscribeCheckModel(r)
        \/ TranscribeValidate(r)
        \/ TranscribeInfer(r)
        \/ DiarizeJson(r)
        \/ DiarizeRaw(r)
        \/ DiarizeTempFile(r)
        \/ DiarizeWriteWav(r)
        \/ DiarizeSpeakers(r)
        \/ DiarizeToken(r)
        \/ DiarizeLoadPipeline(r)
        \/ DiarizeInfer(r)

SpecModels == InitModels /\ [][NextModels]_vars

(***************************************************************************)
(* AudioStreamer: test_stream.py.  PyAudio calls audio_callback once per   *)
(* frame on its own thread while process_audio runs on another; an action  *)
(* is one step of one of the two between accesses to shared attributes.    *)
(* Time is counted in frames of CHUNK_DURATION_MS = 30 ms, and the         *)
(* durations below are the program's, scaled down to a few frames.         *)
(***************************************************************************)
\* silence_chunks = SILENCE_DURATION_MS / CHUNK_DURATION_MS (line 118):
\* 2000 / 30 = 66.7 frames in the program
silence_chunks == 1

\* min_bytes = int(SAMPLE_RATE * MIN_AUDIO_LENGTH * 2) (line 164): 16000
\* bytes, which is 16.7 frames of 960 bytes, in the program
min_bytes == 2

\* TRANSCRIPTION_UPDATE_INTERVAL = 1.5 (line 33): 50 frames in the program
TRANSCRIPTION_UPDATE_INTERVAL == 2

\* mutant of SilenceExceeded: the phrase also ends at exactly the threshold
SilenceExceeded_AtThreshold(n) == n >= silence_chunks

\* self.silence_frames > silence_chunks (line 119)
SilenceExceeded(n) == n > silence_chunks

\* mutant of Merged: only the first dequeued chunk is added to the phrase
Merged_FirstOnly(phrase, chunks) == phrase \o <<Head(chunks)>>

\* audio_data = b''.join(audio_chunks); self.phrase_bytes += audio_data
\* (lines 144-145)
Merged(phrase, chunks) == phrase \o chunks

\* __init__ (lines 37-56) and start() (lines 58-93): is_running is set, the
\* stream is opened with the callback and the processing thread is started
InitStream ==
    /\ InitVerbatim({2})
    /\ AlignIdle
    /\ MergeIdle
    /\ StopIdle
    /\ ModelsIdle
    /\ as_is_running = TRUE
    /\ as_audio_queue = <<>>
    /\ as_phrase_bytes = <<>>
    /\ as_phrase_time = None
    /\ last_transcription_time = None
    /\ is_speaking = FALSE
    /\ silence_frames = 0
    /\ cb_pc = "idle"
    /\ proc_pc = "head"
    /\ as_now = 0
    /\ as_audio_chunks = <<>>
    /\ has_end_signal = FALSE
    /\ should_transcribe = FALSE
    /\ as_is_final = FALSE
    /\ nframes = 0
    /\ frames_log = <<>>
    /\ sends = <<>>
    /\ iter_sends = 0
    /\ queued_at_start = <<>>

\* what process_audio owns, and the history of its steps
procVars ==
    <<as_phrase_bytes, as_phrase_time, proc_pc, as_now, as_audio_chunks,
      has_end_signal, should_transcribe, as_is_final, sends, iter_sends,
      queued_at_start>>

\* keyboard_listener, lines 242-252: 'q' was pressed
Quit ==
    /\ as_is_running
    /\ cb_pc # "off"
    /\ as_is_running' = FALSE
    /\ UNCHANGED <<as_audio_queue, last_transcription_time, is_speaking,
                   silence_frames, cb_pc, nframes, frames_log, procVars>>
    /\ UNCHANGED <<verbatimVars, alignVars, stopVars, modelVars>>

\* audio_callback, lines 97-98: a frame arrives after is_running was cleared
CallbackStopped ==
    /\ cb_pc = "idle"
    /\ nframes < MaxStreamFrames
    /\ ~as_is_running
    /\ nframes' = nframes + 1
    /\ cb_pc' = "complete"
    /\ UNCHANGED <<as_is_running, as_audio_queue, last_transcription_time,
                   is_speaking, silence_frames, frames_log, procVars>>
    /\ UNCHANGED <<verbatimVars, alignVars, stopVars, modelVars>>

\* audio_callback, lines 97-105: a speech frame arrives while not speaking
CallbackSpeechStart ==
    /\ cb_pc = "idle"
    /\ nframes < MaxStreamFrames
    /\ as_is_running
    /\ ~is_speaking
    /\ nframes' = nframes + 1
    /\ frames_log' = Append(frames_log, "S")
    /\ is_speaking' = TRUE
    /\ cb_pc' = "reset_timer"
    /\ UNCHANGED <<as_is_running, as_audio_queue, last_transcription_time,
                   silence_frames, procVars>>
    /\ UNCHANGED <<verbatimVars, alignVars, stopVars, modelVars>>

\* audio_callback, line 106: self.last_transcription_time = None
CallbackResetTimer ==
    /\ cb_pc = "reset_timer"
    /\ last_transcription_time' = None
    /\ cb_pc' = "put_speech"
    /\ UNCHANGED <<as_is_running, as_audio_queue, is_speaking,
                   silence_frames, nframes, frames_log, procVars>>
    /\ UNCHANGED <<verbatimVars, alignVars, stopVars, modelVars>>

\* audio_callback, lines 109-110 and 124, after line 106
CallbackPutSpeech ==
    /\ cb_pc = "put_speech"
    /\ as_audio_queue' = Append(as_audio_queue, nframes)
    /\ silence_frames' = 0
    /\ cb_pc' = "idle"
    /\ UNCHANGED <<as_is_running, last_transcription_time, is_speaking,
                   nframes, frames_log, procVars>>
    /\ UNCHANGED <<verbatimVars, alignVars, stopVars, modelVars>>

\* audio_callback, lines 97-110 and 124: a speech frame while speaking
CallbackSpeech ==
    /\ cb_pc = "idle"
    /\ nframes < MaxStreamFrames
    /\ as_is_running
    /\ is_speaking
    /\ nframes' = nframes + 1
    /\ frames_log' = Append(frames_log, "S")
    /\ as_audio_queue' = Append(as_audio_queue, nframes + 1)
    /\ silence_frames' = 0
    /\ UNCHANGED <<as_is_running, last_transcription_time, is_speaking,
                   cb_pc, procVars>>
    /\ UNCHANGED <<verbatimVars, alignVars, stopVars, modelVars>>

\* audio_callback, lines 97-119 and 124: a frame without speech; while
\* speaking it is queued and counted, otherwise it is dropped
CallbackSilence ==
    /\ cb_pc = "idle"
    /\ nframes < MaxStreamFrames
    /\ as_is_running
    /\ nframes' = nframes + 1
    /\ frames_log' = Append(frames_log, "N")
    /\ IF is_speaking
       THEN /\ as_audio_queue' = Append(as_audio_queue, nframes + 1)
            /\ silence_frames' = silence_frames + 1
            /\ cb_pc' = IF SilenceExceeded(silence_frames + 1)
                        THEN "end_speech" ELSE "idle"
       ELSE UNCHANGED <<as_audio_queue, silence_frames, cb_pc>>
    /\ UNCHANGED <<as_is_running, last_transcription_time, is_speaking,
                   procVars>>
    /\ UNCHANGED <<verbatimVars, alignVars, stopVars, modelVars>>

\* audio_callback, line 120: self.is_speaking = False
CallbackEndSpeech ==
    /\ cb_pc = "end_speech"
    /\ is_speaking' = FALSE
    /\ cb_pc' = "sentinel"
    /\ UNCHANGED <<as_is_running, as_audio_queue, last_transcription_time,
                   silence_frames, nframes, frames_log, procVars>>
    /\ UNCHANGED <<verbatimVars, alignVars, stopVars, modelVars>>

\* audio_callback, lines 122-124: self.audio_queue.put(None)
CallbackPutSentinel ==
    /\ cb_pc = "sentinel"
    /\ as_audio_queue' = Append(as_audio_queue, None)
    /\ frames_log' = Append(frames_log, "END")
    /\ cb_pc' = "idle"
    /\ UNCHANGED <<as_is_running, last_transcription_time, is_speaking,
                   silence_frames, nframes, procVars>>
    /\ UNCHANGED <<verbatimVars, alignVars, stopVars, modelVars>>

\* process_audio, lines 128-133: the while test, now, and the two locals
ProcHead ==
    /\ proc_pc = "head"
    /\ IF as_is_running
       THEN /\ as_now' = nframes
            /\ as_audio_chunks' = <<>>
            /\ has_end_signal' = FALSE
            /\ iter_sends' = 0
            /\ queued_at_start' = as_audio_queue
            /\ proc_pc' = "collect"
       ELSE /\ proc_pc' = "stopped"
            /\ UNCHANGED <<as_now, as_audio_chunks, has_end_signal,
                           iter_sends, queued_at_start>>
    /\ UNCHANGED <<as_phrase_bytes, as_phrase_time, should_transcribe,
                   as_is_final, sends>>
    /\ UNCHANGED <<as_is_running, as_audio_queue, last_transcription_time,
                   is_speaking, silence_frames, cb_pc, nframes, frames_log>>
    /\ UNCHANGED <<verbatimVars, alignVars, stopVars, modelVars>>

\* mutant of ProcGet: the sentinel is noted and the dequeuing goes on
ProcGet_NoBreak ==
    /\ proc_pc = "collect"
    /\ as_audio_queue # <<>>
    /\ as_audio_queue' = Tail(as_audio_queue)
    /\ IF Head(as_audio_queue) = None
       THEN /\ has_end_signal' = TRUE
            /\ UNCHANGED <<as_audio_chunks, proc_pc>>
       ELSE /\ as_audio_chunks' = Append(as_audio_chunks, Head(as_audio_queue))
            /\ UNCHANGED <<has_end_signal, proc_pc>>
    /\ UNCHANGED <<as_phrase_bytes, as_phrase_time, as_now,
                   should_transcribe, as_is_final, sends, iter_sends,
                   queued_at_start>>
    /\ UNCHANGED <<as_is_running, last_transcription_time, is_speaking,
                   silence_frames, cb_pc, nframes, frames_log>>
    /\ UNCHANGED <<verbatimVars, alignVars, stopVars, modelVars>>

\* process_audio, lines 135-140: one self.audio_queue.get()
ProcGet ==
    /\ proc_pc = "collect"
    /\ as_audio_queue # <<>>
    /\ as_audio_queue' = Tail(as_audio_queue)
    /\ IF Head(as_audio_queue) = None
       THEN /\ has_end_signal' = TRUE
            /\ proc_pc' = "collected"
            /\ UNCHANGED as_audio_chunks
       ELSE /\ as_audio_chunks' = Append(as_audio_chunks, Head(as_audio_queue))
            /\ UNCHANGED <<has_end_signal, proc_pc>>
    /\ UNCHANGED <<as_phrase_bytes, as_phrase_time, as_now,
                   should_transcribe, as_is_final, sends, iter_sends,
                   queued_at_start>>
    /\ UNCHANGED <<as_is_running, last_transcription_time, is_speaking,
                   silence_frames, cb_pc, nframes, frames_log>>
    /\ UNCHANGED <<verbatimVars, alignVars, stopVars, modelVars>>

\* process_audio, line 135: the queue is found empty
ProcQueueEmpty ==
    /\ proc_pc = "collect"
    /\ as_audio_queue = <<>>
    /\ proc_pc' = "collected"
    /\ UNCHANGED <<as_phrase_bytes, as_phrase_time, as_now, as_audio_chunks,
                   has_end_signal, should_transcribe, as_is_final, sends,
                   iter_sends, queued_at_start>>
    /\ UNCHANGED <<as_is_running, as_audio_queue, last_transcription_time,
                   is_speaking, silence_frames, cb_pc, nframes, frames_log>>
    /\ UNCHANGED <<verbatimVars, alignVars, stopVars, modelVars>>

\* process_audio, lines 142-155 and 174: the chunks are added to the phrase
\* buffer; with none, the end signal alone is handled or the thread sleeps
ProcAppend ==
    /\ proc_pc = "collected"
    /\ IF as_audio_chunks # <<>>
       THEN /\ as_phrase_bytes' = Merged(as_phrase_bytes, as_audio_chunks)
            /\ as_phrase_time' = as_now
            /\ should_transcribe' = has_end_signal
            /\ as_is_final' = has_end_signal
            /\ proc_pc' = IF has_end_signal THEN "gate" ELSE "speaking"
       ELSE /\ proc_pc' = IF has_end_signal THEN "end_only" ELSE "sleep"
            /\ UNCHANGED <<as_phrase_bytes, as_phrase_time,
                           should_transcribe, as_is_final>>
    /\ UNCHANGED <<as_now, as_audio_chunks, has_end_signal, sends, iter_sends,
                   queued_at_start>>
    /\ UNCHANGED <<as_is_running, as_audio_queue, last_transcription_time,
                   is_speaking, silence_frames, cb_pc, nframes, frames_log>>
    /\ UNCHANGED <<verbatimVars, alignVars, stopVars, modelVars>>

\* process_audio, line 156: elif self.is_speaking
ProcReadSpeaking ==
    /\ proc_pc = "speaking"
    /\ proc_pc' = IF is_speaking THEN "timer" ELSE "gate"
    /\ UNCHANGED <<as_phrase_bytes, as_phrase_time, as_now, as_audio_chunks,
                   has_end_signal, should_transcribe, as_is_final, sends,
                   iter_sends, queued_at_start>>
    /\ UNCHANGED <<as_is_running, as_audio_queue, last_transcription_time,
                   is_speaking, silence_frames, cb_pc, nframes, frames_log>>
    /\ UNCHANGED <<verbatimVars, alignVars, stopVars, modelVars>>

\* process_audio, lines 158-159: if self.last_transcription_time is None
ProcReadTimer ==
    /\ proc_pc = "timer"
    /\ IF last_transcription_time = None
       THEN /\ should_transcribe' = TRUE
            /\ proc_pc' = "gate"
       ELSE /\ proc_pc' = "elapsed"
            /\ UNCHANGED should_transcribe
    /\ UNCHANGED <<as_phrase_bytes, as_phrase_time, as_now, as_audio_chunks,
                   has_end_signal, as_is_final, sends, iter_sends,
                   queued_at_start>>
    /\ UNCHANGED <<as_is_running, as_audio_queue, last_transcription_time,
                   is_speaking, silence_frames, cb_pc, nframes, frames_log>>
    /\ UNCHANGED <<verbatimVars, alignVars, stopVars, modelVars>>

\* process_audio, lines 160-161: the attribute is read again; now - None
\* raises TypeError and ends the thread
ProcReadElapsed ==
    /\ proc_pc = "elapsed"
    /\ IF last_transcription_time = None
       THEN /\ proc_pc' = "crashed"
            /\ UNCHANGED should_transcribe
       ELSE /\ should_transcribe' =
                (as_now - last_transcription_time >= TRANSCRIPTION_UPDATE_INTERVAL)
            /\ proc_pc' = "gate"
    /\ UNCHANGED <<as_phrase_bytes, as_phrase_time, as_now, as_audio_chunks,
                   has_end_signal, as_is_final, sends, iter_sends,
                   queued_at_start>>
    /\ UNCHANGED <<as_is_running, as_audio_queue, last_transcription_time,
                   is_speaking, silence_frames, cb_pc, nframes, frames_log>>
    /\ UNCHANGED <<verbatimVars, alignVars, stopVars, modelVars>>

\* process_audio, lines 164-166: the minimum length, and the call of
\* send_for_transcription
ProcGate ==
    /\ proc_pc = "gate"
    /\ IF should_transcribe /\ Len(as_phrase_bytes) >= min_bytes
       THEN /\ sends' = Append(sends, [buf |-> as_phrase_bytes,
                                       is_final |-> as_is_final,
                                       now |-> as_now])
            /\ iter_sends' = iter_sends + 1
            /\ proc_pc' = "sending"
       ELSE /\ proc_pc' = "sleep"
            /\ UNCHANGED <<sends, iter_sends>>
    /\ UNCHANGED <<as_phrase_bytes, as_phrase_time, as_now, as_audio_chunks,
                   has_end_signal, should_transcribe, as_is_final,
                   queued_at_start>>
    /\ UNCHANGED <<as_is_running, as_audio_queue, last_transcription_time,
                   is_speaking, silence_frames, cb_pc, nframes, frames_log>>
    /\ UNCHANGED <<verbatimVars, alignVars, stopVars, modelVars>>

\* process_audio, lines 166-172: send_for_transcription returns (it catches
\* every exception, lines 235-238), the timer is set, a final phrase is
\* cleared
ProcSendReturn ==
    /\ proc_pc = "sending"
    /\ last_transcription_time' = as_now
    /\ IF as_is_final
       THEN /\ as_phrase_bytes' = <<>>
            /\ as_phrase_time' = None
       ELSE UNCHANGED <<as_phrase_bytes, as_phrase_time>>
    /\ proc_pc' = "sleep"
    /\ UNCHANGED <<as_now, as_audio_chunks, has_end_signal,
                   should_transcribe, as_is_final, sends, iter_sends,
                   queued_at_start>>
    /\ UNCHANGED <<as_is_running, as_audio_queue, is_speaking,
                   silence_frames, cb_pc, nframes, frames_log>>
    /\ UNCHANGED <<verbatimVars, alignVars, stopVars, modelVars>>

\* process_audio, lines 174-177: the end signal came without audio
ProcEndOnly ==
    /\ proc_pc = "end_only"
    /\ IF Len(as_phrase_bytes) > 0
       THEN /\ sends' = Append(sends, [buf |-> as_phrase_bytes,
                                       is_final |-> TRUE, now |-> as_now])
            /\ iter_sends' = iter_sends + 1
       ELSE UNCHANGED <<sends, iter_sends>>
    /\ proc_pc' = "end_clear"
    /\ UNCHANGED <<as_phrase_bytes, as_phrase_time, as_now, as_audio_chunks,
                   has_end_signal, should_transcribe, as_is_final,
                   queued_at_start>>
    /\ UNCHANGED <<as_is_running, as_audio_queue, last_transcription_time,
                   is_speaking, silence_frames, cb_pc, nframes, frames_log>>
    /\ UNCHANGED <<verbatimVars, alignVars, stopVars, modelVars>>

\* process_audio, lines 178-179
ProcEndClear ==
    /\ proc_pc = "end_clear"
    /\ as_phrase_bytes' = <<>>
    /\ as_phrase_time' = None
    /\ proc_pc' = "sleep"
    /\ UNCHANGED <<as_now, as_audio_chunks, has_end_signal,
                   should_transcribe, as_is_final, sends, iter_sends,
                   queued_at_start>>
    /\ UNCHANGED <<as_is_running, as_audio_queue, last_transcription_time,
                   is_speaking, silence_frames, cb_pc, nframes, frames_log>>
    /\ UNCHANGED <<verbatimVars, alignVars, stopVars, modelVars>>

\* process_audio, line 181: time.sleep(0.1); the locals of the iteration
\* are dead from here on and are assigned again before they are read
ProcSleep ==
    /\ proc_pc = "sleep"
    /\ proc_pc' = "head"
    /\ as_audio_chunks' = <<>>
    /\ has_end_signal' = FALSE
    /\ should_transcribe' = FALSE
    /\ as_is_final' = FALSE
    /\ queued_at_start' = <<>>
    /\ iter_sends' = 0
    /\ UNCHANGED <<as_phrase_bytes, as_phrase_time, as_now, sends>>
    /\ UNCHANGED <<as_is_running, as_audio_queue, last_transcription_time,
                   is_speaking, silence_frames, cb_pc, nframes, frames_log>>
    /\ UNCHANGED <<verbatimVars, alignVars, stopVars, modelVars>>

NextStream ==
    \/ Quit
    \/ CallbackStopped
    \/ CallbackSpeechStart
    \/ CallbackResetTimer
    \/ CallbackPutSpeech
    \/ CallbackSpeech
    \/ CallbackSilence
    \/ CallbackEndSpeech
    \/ CallbackPutSentinel
    \/ ProcHead
    \/ ProcGet
    \/ ProcQueueEmpty
    \/ ProcAppend
    \/ ProcReadSpeaking
    \/ ProcReadTimer
    \/ ProcReadElapsed
    \/ ProcGate
    \/ ProcSendReturn
    \/ ProcEndOnly
    \/ ProcEndClear
    \/ ProcSleep

SpecStream == InitStream /\ [][NextStream]_vars

(***************************************************************************)
(* Properties of the /verbatim session.                                    *)
(***************************************************************************)
\* positions p < q of hist holding two chunks appended one after the other
ConsecutiveChunks(p, q) ==
    /\ p < q
    /\ hist[p].k = "chunk"
    /\ hist[q].k = "chunk"
    /\ \A i \in (p + 1)..(q - 1) : hist[i].k # "chunk"

\* resets of the phrase buffer between positions p and q of hist
ResetsBetween(p, q) ==
    Cardinality({i \in (p + 1)..(q - 1) : hist[i].k = "reset"})

\* C1 (as stated): between two consecutive chunks whose ARRIVAL times are
\* more than phrase_timeout apart the phrase buffer is reset exactly once,
\* and between two whose arrival times are less than phrase_timeout apart it
\* is not reset.
C1_ResetByArrivalGap ==
    \A p, q \in 1..Len(hist) :
        ConsecutiveChunks(p, q) =>
            /\ hist[q].arr - hist[p].arr > phrase_timeout => ResetsBetween(p, q) = 1
            /\ hist[q].arr - hist[p].arr < phrase_timeout => ResetsBetween(p, q) = 0

\* C1 (amended): the gap that decides is the one between the `now` of the
\* loop iterations that retrieved the two chunks from the queue: the phrase
\* buffer is reset exactly once between two consecutive chunks retrieved
\* more than phrase_timeout apart, never between two retrieved at most
\* phrase_timeout apart, and never before the first chunk.
C1_ResetByDequeueGap ==
    /\ \A p, q \in 1..Len(hist) :
        ConsecutiveChunks(p, q) =>
            ResetsBetween(p, q) =
                IF hist[q].deq - hist[p].deq > phrase_timeout THEN 1 ELSE 0
    /\ \A i \in 1..Len(hist) :
        hist[i].k = "reset" => \E p \in 1..(i - 1) : hist[p].k = "chunk"

\* C1 witness: two consecutive chunks retrieved more than phrase_timeout
\* apart, although they arrived less than phrase_timeout apart, with the one
\* reset between them.
C1_Witness ==
    \E p, q \in 1..Len(hist) :
        /\ ConsecutiveChunks(p, q)
        /\ hist[q].deq - hist[p].deq > phrase_timeout
        /\ hist[q].arr - hist[p].arr < phrase_timeout
        /\ ResetsBetween(p, q) = 1

\* C2: when the session is over (the generator has returned and the reader
\* has stopped), the bytes ever appended to phrase_bytes are the ingested
\* bytes, in arrival order; before that they are a prefix of them.
C2_NoDataLoss ==
    /\ Len(appended) <= Len(ingested)
    /\ appended = SubSeq(ingested, 1, Len(appended))
    /\ (pc = "done" /\ ~reader_alive) => appended = ingested

\* C4: no buffer handed to the Transcriber is shorter than 0.5 s of audio,
\* that is, has fewer than sample_rate * 0.5 * 2 = sample_rate bytes.
C4_MinDurationGate ==
    \A i \in 1..Len(calls) : Len(calls[i].buf) >= sample_rate

\* a Transcriber failure has been reported
TranscriberFailed ==
    \E i \in 1..Len(events) :
        events[i].type = "error" /\ events[i].message = "TranscriptionError"

\* C5: after a Transcriber failure the accumulation loop goes on: the
\* generator is over only once the stream is complete and the queue drained.
C5_FailureKeepsLoop ==
    (TranscriberFailed /\ pc = "done") => (stream_complete /\ data_queue = <<>>)

\* C6: a non-empty phrase that got no chunk for more than phrase_timeout
\* while the loop was polling is finalized by the loop: a session that ends
\* normally (final event) leaves no such phrase behind.
C6_StalePhraseFinalized ==
    (pc = "done" /\ events[Len(events)].type = "final") => ~stale

\* C7: when the timeout check resets a buffer of at least the minimum
\* duration, that buffer has been handed to the Transcriber as a final
\* phrase.
C7_FinalDispatchBeforeReset ==
    [][(/\ pc = "loop"
        /\ pc' = "drain"
        /\ PhraseExpired(phrase_time, now')
        /\ EnoughAudio(phrase_bytes, sample_rate))
       => \E i \in 1..Len(calls') :
            calls'[i].buf = phrase_bytes /\ calls'[i].is_final]_vars

\* C8: an event flagged is_final carries the text of the buffer of the phrase
\* that has just ended, and an event that carries the text of the buffer
\* still accumulating is not flagged is_final.
C8_FinalFlagMeansEndedPhrase ==
    [][(pc = "transcribing" /\ pc' = "loop") =>
        LET e == events'[Len(events')]
        IN /\ e.is_final => e.text = Strip(Whisper(ended))
           /\ e.text = Strip(Whisper(phrase_bytes')) => ~e.is_final]_vars

\* C9: the transcription events of one phrase are its live updates, then its
\* final event, and no event of a later phrase comes before the final event
\* of an earlier phrase.
C9_PhraseEventOrder ==
    \A i, j \in 1..Len(events) :
        (i < j /\ events[i].type = "transcription" /\ events[j].type = "transcription")
        => /\ events[i].phrase <= events[j].phrase
           /\ events[i].phrase = events[j].phrase => ~events[i].is_final
           /\ events[i].phrase < events[j].phrase =>
                \E k \in i..(j - 1) :
                    /\ events[k].type = "transcription"
                    /\ events[k].phrase = events[i].phrase
                    /\ events[k].is_final

\* C10: at most one Transcriber call is in flight.
C10_OneCallInFlight == inflight <= 1

\* C10 witness: a call is in flight while audio is waiting in the queue and
\* the stream has more to deliver.
C10_Witness == inflight = 1 /\ data_queue # <<>> /\ reader_alive

\* a chunk (position q of hist) that arrived more than phrase_timeout after
\* the chunk before it (position p) was retrieved, and was itself retrieved
\* by a loop iteration that started after it had arrived
AfterSilence(p, q) ==
    /\ ConsecutiveChunks(p, q)
    /\ hist[q].arr - hist[p].deq > phrase_timeout
    /\ hist[q].deq >= hist[q].arr

\* the part of C17 about the number of resets: between the chunks before
\* the silence and the chunk after it the phrase buffer is reset exactly
\* once, and that chunk is the first content of the new phrase
OneResetAfterSilence ==
    \A p, q \in 1..Len(hist) :
        AfterSilence(p, q) =>
            /\ ResetsBetween(p, q) = 1
            /\ hist[q - 1].k = "reset"

\* C17: when no chunk arrives for more than phrase_timeout after the chunks
\* of a phrase, and then one more chunk arrives, the phrase buffer is reset
\* exactly once between them, the chunk that follows is the first content of
\* the new phrase, and the reset is made by the loop iteration that first
\* finds the timeout elapsed, not by a later one.
C17_FinalizeAtTimeoutMark ==
    /\ OneResetAfterSilence
    /\ \A i \in 1..Len(hist) : hist[i].k = "reset" => ~hist[i].late

\* C19: once the consumer has disconnected, the dispatch loop starts no
\* further Transcriber call.
C19_NoWorkAfterDisconnect ==
    [][~connected => calls' = calls]_vars

\* C20: a chunk whose length is not a multiple of the sample width never
\* reaches the phrase buffer, and the session does not end on the ValueError
\* of a misaligned buffer.
C20_MisalignedChunkRejected ==
    /\ \A i \in 1..Len(hist) : hist[i].k = "chunk" => hist[i].len % 2 = 0
    /\ \A i \in 1..Len(events) : events[i].message # "ValueError"

\* C32: the events of a session are one status event, then transcription
\* events only, then, once the generator has returned, one terminal event,
\* final or error, after which there is no event.
C32_EventStreamShape ==
    /\ events # <<>> => events[1].type = "status"
    /\ \A i \in 2..Len(events) :
        /\ events[i].type \in {"transcription", "final", "error"}
        /\ i < Len(events) => events[i].type = "transcription"
    /\ pc = "done" =>
        /\ Len(events) >= 2
        /\ events[Len(events)].type \in {"final", "error"}
    /\ (events # <<>> /\ events[Len(events)].type \in {"final", "error"})
        => pc \in {"done", "closed"}

\* C32 witness: a session that yielded a transcription event has ended with
\* the error event.
C32_Witness ==
    /\ pc = "done"
    /\ Len(events) = 3
    /\ events[2].type = "transcription"
    /\ events[3].type = "error"

\* the loop has been left by its condition: the final event is next or has
\* been yielded
LoopLeft ==
    \/ pc = "final"
    \/ events # <<>> /\ events[Len(events)].type = "final"

\* C33: once the stream reader has finished, the generator terminates; and
\* whenever it has left its loop the completion flag is set, the queue is
\* empty and every chunk the reader enqueued has been appended to the phrase
\* buffer.
C33_GeneratorEndsAfterReader ==
    /\ [](LoopLeft => /\ stream_complete
                      /\ data_queue = <<>>
                      /\ appended = ingested)
    /\ (stream_complete ~> pc \in {"done", "closed"})

\* C33 witness: the reader enqueued two chunks, the generator took them in
\* two iterations and has yielded the final event.
C33_Witness ==
    /\ pc = "done"
    /\ events[Len(events)].type = "final"
    /\ Len(hist) >= 2
    /\ hist[1].k = "chunk"
    /\ hist[Len(hist)].k = "chunk"
    /\ hist[1].deq < hist[Len(hist)].deq
    /\ appended = ingested

\* the phrases that have a transcription event
Transcribed ==
    {events[i].phrase : i \in {j \in 1..Len(events) :
                                  events[j].type = "transcription"}}

\* the text of the last transcription event of phrase p
LastTextOf(p) ==
    LET last == CHOOSE i \in 1..Len(events) :
            /\ events[i].type = "transcription"
            /\ events[i].phrase = p
            /\ \A j \in (i + 1)..Len(events) :
                events[j].type = "transcription" => events[j].phrase # p
    IN events[last].text

RECURSIVE PhraseTexts(_)
\* the last transcripts of the phrases from p on, in phrase order
PhraseTexts(p) ==
    IF p > phrase_no THEN <<>>
    ELSE (IF p \in Transcribed THEN <<LastTextOf(p)>> ELSE <<>>)
         \o PhraseTexts(p + 1)

\* C35: the text of the final event is the space-joined list of the last
\* transcript of every phrase, in phrase order.
C35_FinalTextKeepsEveryPhrase ==
    (events # <<>> /\ events[Len(events)].type = "final")
        => events[Len(events)].text = Strip(Join(PhraseTexts(1)))

\* s is a prefix of t
IsPrefix(s, t) == Len(s) <= Len(t) /\ s = SubSeq(t, 1, Len(s))

\* C26: every step either leaves the previous phrase buffer as a prefix of
\* the new one, or empties it while moving to the next phrase.
C26_BufferOnlyGrows ==
    [][\/ IsPrefix(phrase_bytes, phrase_bytes')
       \/ /\ phrase_bytes' = <<>>
          /\ phrase_no' = phrase_no + 1
          /\ phrase_complete']_vars

\* C26 witness: one phrase that grew in two separate appends.
C26_Witness ==
    /\ Len(hist) = 2
    /\ hist[1].k = "chunk"
    /\ hist[2].k = "chunk"
    /\ hist[1].deq < hist[2].deq
    /\ phrase_bytes = Payload(hist[1].id, hist[1].len)
                      \o Payload(hist[2].id, hist[2].len)

\* position of the last reset in hist, 0 when there is none
LastReset ==
    IF \E i \in 1..Len(hist) : hist[i].k = "reset"
    THEN CHOOSE i \in 1..Len(hist) :
            /\ hist[i].k = "reset"
            /\ \A j \in (i + 1)..Len(hist) : hist[j].k # "reset"
    ELSE 0

\* the bytes of the chunks appended after the last reset
SinceLastReset ==
    Flatten([j \in 1..(Len(hist) - LastReset) |->
                Payload(hist[LastReset + j].id, hist[LastReset + j].len)])

C25_ModelsBuiltOnlyAtStartup ==
    [][server_pc = "serving" =>
        /\ whisper_transcriber' = whisper_transcriber
        /\ transcribers_built' = transcribers_built
        /\ pipelines_built' = pipelines_built]_vars

\* the diarization handler has answered request r
Finished(r) == requests[r].route = "diarization" /\ requests[r].pc = "done"

\* C36: once the diarization handler has answered, the temporary WAV file it
\* created no longer exists, whatever the exit path; a file named by the
\* caller in audio_path is never removed.
C36_TempFileRemovedCallerFileKept ==
    \A r \in 1..Len(requests) :
        /\ Finished(r) => requests[r].temp_file # "exists"
        /\ requests[r].caller_file # "removed"

\* C36: one raw-body request was rejected with status 400 after its
\* temporary file was created, and the file is gone; one JSON request was
\* answered 200 and the caller's file still exists.
C36_Witness ==
    /\ \E r \in 1..Len(requests) :
        /\ Finished(r)
        /\ requests[r].status = 400
        /\ requests[r].temp_file = "removed"
    /\ \E r \in 1..Len(requests) :
        /\ Finished(r)
        /\ requests[r].status = 200
        /\ requests[r].ctype = "json"
        /\ requests[r].caller_file = "exists"

\* the request carries no audio_path naming an existing file
NoAudioPath(req) ==
    req.ctype = "json" /\ req.body \in {"no_object", "no_path", "missing_file"}

\* a header the handler read that is not an integer
NonInteger(h) == h.kind = "text"

\* a header the handler read as an integer, or as its default when absent
SentInt(h) == h.kind \in {"absent", "int"}

\* the cases of C37 that are to be answered with status 400
DiarizeInvalid(req) ==
    \/ NoAudioPath(req)
    \/ req.ctype = "raw" /\ req.body = "empty"
    \/ NonInteger(req.rate)
    \/ SentInt(req.rate) /\ IntOf(req.rate, 16000) \notin {8000, 16000, 22050, 44100, 48000}
    \/ NonInteger(req.min)
    \/ NonInteger(req.max)
    \/ SentInt(req.min) /\ IntOf(req.min, 1) < 1
    \/ SentInt(req.min) /\ SentInt(req.max) /\ IntOf(req.max, 10) < IntOf(req.min, 1)

\* C37: the diarization handler never invokes the pipeline for an invalid
\* request or without HF_TOKEN, and answers the former with status 400 and
\* the latter with status 500.
C37_InvalidRequestRejected ==
    \A r \in 1..Len(requests) :
        LET req == requests[r]
        IN req.route = "diarization" =>
            /\ DiarizeInvalid(req) =>
                /\ ~req.invoked
                /\ req.pc = "done" => req.status = 400
            /\ (~DiarizeInvalid(req) /\ req.token = "missing") =>
                /\ ~req.invoked
                /\ req.pc = "done" => req.status = 500

\* C38: the transcription handler never invokes the Transcriber for a
\* request that is not application/json or names no existing audio_path, and
\* answers it with status 400; a failure of the Transcriber is answered with
\* status 500 and success = false.
C38_TranscriptionErrors ==
    \A r \in 1..Len(requests) :
        LET req == requests[r]
        IN req.route = "transcription" =>
            /\ (req.ctype = "other" \/ NoAudioPath(req)) =>
                /\ ~req.invoked
                /\ req.pc = "done" => req.status = 400
            /\ (req.pc = "done" /\ req.raised) =>
                /\ req.status = 500
                /\ req.success = FALSE

(***************************************************************************)
(* Properties of AudioStreamer.                                            *)
(***************************************************************************)
\* C22: two live (non-final) dispatches of the same phrase are at least
\* TRANSCRIPTION_UPDATE_INTERVAL apart, by the `now` of their iterations.
C22_LiveCadence ==
    \A i, j \in 1..Len(sends) :
        (/\ i < j
         /\ ~sends[i].is_final
         /\ ~sends[j].is_final
         /\ IsPrefix(sends[i].buf, sends[j].buf))
        => sends[j].now - sends[i].now >= TRANSCRIPTION_UPDATE_INTERVAL

\* frames_log[k] is the sentinel of an episode: the frames before it are a
\* speech frame followed by silence_chunks + 1 frames without speech
EndsEpisode(k) ==
    /\ k > silence_chunks + 2
    /\ frames_log[k - silence_chunks - 2] = "S"
    /\ \A m \in (k - silence_chunks - 1)..(k - 1) : frames_log[m] = "N"

\* a speech frame at k followed by silence_chunks + 1 frames without speech
SilentRunAfter(k) ==
    /\ frames_log[k] = "S"
    /\ k + silence_chunks + 1 <= Len(frames_log)
    /\ \A m \in (k + 1)..(k + silence_chunks + 1) : frames_log[m] = "N"

\* C23: the sentinel is enqueued only after a speech frame followed by more
\* than silence_chunks frames without speech, once for every such run, and
\* after a speech frame the silence count is zero.
C23_SentinelOncePerEpisode ==
    /\ \A k \in 1..Len(frames_log) :
        /\ frames_log[k] = "END" => EndsEpisode(k)
        /\ (SilentRunAfter(k) /\ (cb_pc = "idle"
                                  \/ k + silence_chunks + 1 < Len(frames_log)))
            => /\ k + silence_chunks + 2 <= Len(frames_log)
               /\ frames_log[k + silence_chunks + 2] = "END"
    /\ (cb_pc = "idle" /\ frames_log # <<>>
            /\ frames_log[Len(frames_log)] = "S") => silence_frames = 0

\* C23 witness: a pause shorter than the threshold, speech again, and then
\* the silence that ends the episode.
C23_Witness ==
    /\ Len(frames_log) >= 2 * silence_chunks + 4
    /\ frames_log[Len(frames_log)] = "END"
    /\ \E k \in 1..Len(frames_log) :
        /\ k + 2 <= Len(frames_log)
        /\ frames_log[k] = "S"
        /\ frames_log[k + 1] = "N"
        /\ frames_log[k + 2] = "S"

\* C24: a step of audio_callback leaves the phrase buffer, the phrase time,
\* the last-live-transcription timer and the dispatches unchanged.
C24_IngestionLeavesDispatcherState ==
    [][(cb_pc' # cb_pc \/ nframes' # nframes) =>
        /\ as_phrase_bytes' = as_phrase_bytes
        /\ as_phrase_time' = as_phrase_time
        /\ last_transcription_time' = last_transcription_time
        /\ sends' = sends]_vars

\* the chunks of q ahead of its first end-of-phrase sentinel
RECURSIVE BeforeSentinel(_)
BeforeSentinel(q) ==
    IF q = <<>> \/ Head(q) = None THEN <<>>
    ELSE <<Head(q)>> \o BeforeSentinel(Tail(q))

\* every chunk of q is in the buffer of the last dispatch
AllDispatched(q) ==
    \A k \in 1..Len(q) :
        q[k] # None =>
            \E m \in 1..Len(sends[Len(sends)].buf) :
                sends[Len(sends)].buf[m] = q[k]

\* C29 (as stated): when an iteration calls send_for_transcription, every
\* chunk that was queued when the iteration started is in the buffer it
\* sends, and an iteration makes at most one call.
C29_AllQueuedMerged ==
    /\ iter_sends <= 1
    /\ (iter_sends = 1 /\ proc_pc \in {"sending", "end_clear"})
        => AllDispatched(queued_at_start)

\* C29 (amended): every chunk that was queued ahead of the first
\* end-of-phrase sentinel when the iteration started is in the buffer the
\* iteration sends, and an iteration makes at most one call.
C29_QueuedUpToSentinelMerged ==
    /\ iter_sends <= 1
    /\ (iter_sends = 1 /\ proc_pc \in {"sending", "end_clear"})
        => AllDispatched(BeforeSentinel(queued_at_start))

\* C29 witness: an iteration that found two chunks queued has made its one
\* call.
C29_Witness ==
    /\ iter_sends = 1
    /\ proc_pc = "sending"
    /\ Len(BeforeSentinel(queued_at_start)) >= 2

RECURSIVE EndsBefore(_, _, _, _)
\* the sentinels in frames_log before frame f, scanning from position i
\* with `seen` frames and `ends` sentinels passed
EndsBefore(f, i, seen, ends) ==
    IF frames_log[i] = "END" THEN EndsBefore(f, i + 1, seen, ends + 1)
    ELSE IF seen + 1 = f THEN ends
    ELSE EndsBefore(f, i + 1, seen + 1, ends)

\* the episode of frame f: the number of sentinels enqueued before it
EpisodeOf(f) == EndsBefore(f, 1, 0, 0)

\* all frames of buf, which is in delivery order, are of one episode
OneEpisode(buf) ==
    /\ \A a \in 1..(Len(buf) - 1) : buf[a] < buf[a + 1]
    /\ buf # <<>> => EpisodeOf(buf[1]) = EpisodeOf(buf[Len(buf)])

\* the frames of q, without the sentinels
RECURSIVE FramesOf(_)
FramesOf(q) ==
    IF q = <<>> THEN <<>>
    ELSE (IF Head(q) = None THEN <<>> ELSE <<Head(q)>>) \o FramesOf(Tail(q))

\* the chunks process_audio has dequeued and not yet added to the phrase
Dequeued ==
    IF proc_pc \in {"collect", "collected"} THEN as_audio_chunks ELSE <<>>

\* C34: no phrase buffer, and no buffer that was dispatched, holds a chunk
\* enqueued after the sentinel that ends its phrase; what was enqueued
\* after a sentinel is taken by a later iteration, in order.
C34_PhraseStopsAtSentinel ==
    /\ OneEpisode(as_phrase_bytes \o Dequeued)
    /\ \A k \in 1..Len(sends) : OneEpisode(sends[k].buf)
    /\ LET all == as_phrase_bytes \o Dequeued \o FramesOf(as_audio_queue)
       IN \A a \in 1..(Len(all) - 1) : all[a] < all[a + 1]

\* C34 witness: the final dispatch of a phrase is under way while a chunk
\* that was enqueued behind its sentinel before the iteration started is
\* still in the queue.
C34_Witness ==
    /\ proc_pc = "sending"
    /\ sends[Len(sends)].is_final
    /\ as_audio_queue # <<>>
    /\ \E k \in 2..Len(queued_at_start) :
        /\ queued_at_start[k - 1] = None
        /\ queued_at_start[k] = Head(as_audio_queue)

\* C28 is about a finalization that finds the phrase buffer empty.  The two
\* predicates below hold: in AudioStreamer the end-of-phrase sentinel never
\* finds the phrase buffer empty, and in /verbatim the timeout never clears
\* an empty buffer, so the case of C28 does not arise in either program.
TimeoutFindsAudio ==
    \A k \in 1..Len(hist) :
        hist[k].k = "reset" => (k > 1 /\ hist[k - 1].k = "chunk")

SentinelFindsAudio ==
    (proc_pc \in {"gate", "end_only"} /\ has_end_signal)
        => as_phrase_bytes # <<>>

(***************************************************************************)
(* Properties of the alignment.                                            *)
(***************************************************************************)
\* the end the interval of chunk i has: its own, or for a None end the end
\* of the last speaker segment (the chunk's start when there is none)
EffectiveEnd(i) ==
    IF timestamps[i].end # None THEN timestamps[i].end
    ELSE IF segments # <<>> THEN segments[Len(segments)].end
    ELSE timestamps[i].start

\* the length of the overlap of chunk i and segment j, when positive
OverlapLength(i, j) ==
    Min2(EffectiveEnd(i), segments[j].end)
        - Max2(timestamps[i].start, segments[j].start)

\* the segments chunk i overlaps
Candidates(i) == {j \in 1..Len(segments) : OverlapLength(i, j) > 0}

\* the turns of the result; none when process_diarization raised
Turns == IF speaker_transcriptions.tag = "ok" THEN speaker_transcriptions.turns
         ELSE <<>>

\* chunk i's text is part of turn t
InTurn(i, t) == \E k \in 1..Len(t.text) : t.text[k] = i

\* C3: a chunk that overlaps no segment is in no turn of the result, and a
\* chunk that overlaps exactly one segment is in a turn of that segment's
\* speaker.
C3_OverlapLaw ==
    align_pc = "done" =>
        \A i \in 1..Len(timestamps) :
            /\ Candidates(i) = {} =>
                \A n \in 1..Len(Turns) : ~InTurn(i, Turns[n])
            /\ Cardinality(Candidates(i)) = 1 =>
                \E n \in 1..Len(Turns), j \in Candidates(i) :
                    /\ InTurn(i, Turns[n])
                    /\ Turns[n].speaker = segments[j].speaker_id

\* C11: for the two-speaker recording and its three chunks, the result is
\* exactly the turns (A, 0 s, 2 s, "hi there") and (B, 2 s, 3.5 s, "bob"),
\* in half seconds and chunk numbers.
C11_TwoSpeakerTurns ==
    (align_pc = "done" /\ segments = TwoSpeakerSegments
                      /\ timestamps = TwoSpeakerChunks)
    => speaker_transcriptions =
        [tag |-> "ok",
         turns |-> <<[speaker |-> "A", start |-> 0, end |-> 4,
                      text |-> <<1, SP, 2>>],
                     [speaker |-> "B", start |-> 4, end |-> 7,
                      text |-> <<3>>]>>]

\* C12: a chunk whose end is None is aligned with the end of the last
\* speaker segment as its end, and the alignment does not fail.
C12_NullEndResolved ==
    align_pc = "done" =>
        /\ speaker_transcriptions # TypeError
        /\ \A i \in 1..Len(timestamps) :
            (timestamps[i].end = None /\ segments # <<>>) =>
                chunk_end_of(timestamps[i], get_last_segment(segments))
                    = PyFloat(segments[Len(segments)].end)

\* the candidates of chunk i with the largest overlap
Largest(i) ==
    {j \in Candidates(i) :
        \A k \in Candidates(i) : OverlapLength(i, j) >= OverlapLength(i, k)}

\* the first of them in iteration order
FirstLargest(i) == CHOOSE j \in Largest(i) : \A k \in Largest(i) : j <= k

\* what find_best_match returns when it selects segment j
MatchOf(j) ==
    [tag |-> "match", start |-> segments[j].start, end |-> segments[j].end,
     speaker |-> segments[j].speaker_id]

\* C13: called with a chunk's start and (numeric) end, find_best_match
\* returns None when no segment overlaps the chunk, and otherwise the first,
\* in iteration order, of the segments with the largest overlap.
C13_FirstLargestOverlap ==
    align_pc = "done" =>
        \A i \in 1..Len(timestamps) :
            timestamps[i].end # None =>
                best_matches[i] =
                    IF Candidates(i) = {} THEN PyNone
                    ELSE MatchOf(FirstLargest(i))

\* C13 witness: a chunk overlaps two segments of different speakers by the
\* same largest length, and the first of them is the match.
C13_Witness ==
    /\ align_pc = "done"
    /\ \E i \in 1..Len(timestamps) :
        /\ timestamps[i].end # None
        /\ \E j, k \in Largest(i) :
            j < k /\ segments[j].speaker_id # segments[k].speaker_id
        /\ best_matches[i] = MatchOf(FirstLargest(i))

\* C14: each provisional tuple carries the start and end of the segment its
\* chunk was matched with.
C14_TupleHasSegmentTimes ==
    (align_pc = "done" /\ provisional.tag = "ok") =>
        \A n \in 1..Len(provisional.tuples) :
            \A i \in 1..Len(timestamps) :
                provisional.tuples[n].text = timestamps[i].text =>
                    /\ provisional.tuples[n].start = best_matches[i].start
                    /\ provisional.tuples[n].end = best_matches[i].end

\* C21: when the Diarizer call fails, the pipeline has made that one
\* Diarizer call and no Transcriber call, and what it hands its caller is
\* the failure, not a list of turns.
C21_DiarizerFailureSurfaced ==
    ~diarizer_ok =>
        /\ align_pc = "done" =>
            /\ diarizer_calls = 1
            /\ transcriber_calls = 0
            /\ speaker_transcriptions = ValueError
        /\ process_pc = "done" =>
            /\ process_result.diarizer_calls = 1
            /\ process_result.transcriber_calls = 0
            /\ process_result.tag # "ok"

\* C30: when no chunk overlaps a speaker segment, the alignment returns the
\* empty list of turns and raises no exception.
C30_NoOverlapGivesEmptyTurns ==
    (align_pc = "done" /\ diarizer_ok
        /\ \A i \in 1..Len(timestamps) : Candidates(i) = {})
    => speaker_transcriptions = [tag |-> "ok", turns |-> <<>>]

(***************************************************************************)
(* Properties of the merge pass.                                           *)
(***************************************************************************)
\* the positions of merge_input where a run of one speaker starts
RunStarts ==
    {i \in 1..Len(merge_input) :
        i = 1 \/ merge_input[i].speaker # merge_input[i - 1].speaker}

\* the start of the k-th run
RunStart(k) ==
    CHOOSE s \in RunStarts : Cardinality({b \in RunStarts : b <= s}) = k

\* the end of the k-th run
RunEnd(k) ==
    IF k = Cardinality(RunStarts) THEN Len(merge_input) ELSE RunStart(k + 1) - 1

\* the texts of the tuples of a list, concatenated in order
TotalText(ts) == Flatten([i \in 1..Len(ts) |-> ts[i].text])

\* C15: the result of the merge pass is the list of the maximal runs of
\* consecutive tuples of one speaker, each as one turn with the first
\* tuple's start, the last tuple's end and the texts concatenated in order;
\* no two adjacent turns have the same speaker, and the total text is that
\* of the input.
C15_MergeIsMaximalRuns ==
    merge_pc # "start" =>
        /\ Len(merged_segments) = Cardinality(RunStarts)
        /\ \A k \in 1..Len(merged_segments) :
            merged_segments[k] =
                [speaker |-> merge_input[RunStart(k)].speaker,
                 start |-> merge_input[RunStart(k)].start,
                 end |-> merge_input[RunEnd(k)].end,
                 text |-> TotalText(SubSeq(merge_input, RunStart(k), RunEnd(k)))]
        /\ \A k \in 1..(Len(merged_segments) - 1) :
            merged_segments[k].speaker # merged_segments[k + 1].speaker
        /\ TotalText(merged_segments) = TotalText(merge_input)

\* C15 witness: a run of two tuples of one speaker with different ends,
\* followed by a tuple of another speaker, has been merged.
C15_Witness ==
    /\ merge_pc = "merged"
    /\ Len(merge_input) = 3
    /\ merge_input[1].speaker = merge_input[2].speaker
    /\ merge_input[1].end # merge_input[2].end
    /\ merge_input[2].speaker # merge_input[3].speaker
    /\ Len(merged_segments) = 2

\* C16: the merge pass applied to its own result returns the identical
\* list.
C16_MergeIdempotent ==
    merge_pc = "remerged" => remerged = merged_segments

\* C16 witness: a list with a run of three tuples of one speaker has been
\* merged and merged again.
C16_Witness ==
    /\ merge_pc = "remerged"
    /\ Len(merge_input) = 3
    /\ Len(merged_segments) = 1
    /\ remerged = merged_segments

(***************************************************************************)
(* Properties of the end of a LiveDiarizationStreamer session.             *)
(***************************************************************************)
\* C18: once save_audio has read the recorded frames, record_callback
\* appends nothing to all_audio_frames and puts nothing on audio_queue.
C18_NoIngestionAfterSave ==
    [][(main_pc = "diarize" \/ main_pc = "done") =>
        /\ all_audio_frames' = all_audio_frames
        /\ audio_queue' = audio_queue]_vars

\* C31: the recorded audio that save_audio hands on to the Diarizer is the
\* concatenation, in delivery order, of every recording record_callback was
\* called with, whatever the live loop took from the queue.
C31_RecordedIsAllDelivered ==
    main_pc = "diarize" => recorded = [i \in 1..captured |-> i]

====
